---- MODULE Spec2Model ----
(***************************************************************************)
(* State-machine model of the graph exploration engine of the HDT graph    *)
(* discovery demo: the general browser (GraphBrowser), the specialized     *)
(* single-predicate traversal (SpecializedGraphBrowser) and the triple     *)
(* source they query.                                                      *)
(*                                                                         *)
(* Strings are sequences of tokens, so that template strings are modelled  *)
(* as concatenation (\o) and two ids are equal exactly when the            *)
(* concatenated texts are.  An optional value (undefined / null in the     *)
(* source) is the empty tuple None, a present value x is Some(x).          *)
(***************************************************************************)
EXTENDS Naturals, Sequences, FiniteSets, Bags, TLC

VARIABLES
    dataset,        \* the triple source: quads in the source's iteration order
    rootIri,        \* GraphBrowser: text of the Start IRI input
    nodes,          \* GraphBrowser: the node map (NodeId -> NodeData)
    loading,        \* GraphBrowser: the loading indicator
    inflight,       \* GraphBrowser: loadNodeChildren calls suspended at their await
    timers,         \* GraphBrowser: pending setTimeout callbacks of handleLoadRoot
    console,        \* GraphBrowser: the last message loadNodeChildren wrote to the console
    sview,          \* App: the hand-off message shown by the specialized view
    snodes,         \* SpecializedGraphBrowser: the node map (IRI -> SpecializedNode)
    sloading,       \* SpecializedGraphBrowser: the loading indicator
    sinflight,      \* SpecializedGraphBrowser: loadNode calls suspended at Promise.all
    slabels,        \* SpecializedGraphBrowser: pending child-label lookups
    sexpandedItems, \* SpecializedGraphBrowser: the ids of the expanded tree items
    bookmarks,      \* bookmark store: the saved references, newest first
    fieldStates,    \* bookmark store: the stored value of each registered input
    lastFocusedInputId,  \* bookmark store: the input recorded as focused, if any
    isUpdatingFromStore, \* GraphBrowser: the ref of that name
    effectDeps      \* GraphBrowser: the fieldValue and rootIri of the render whose
                    \* effects ran last, None before the effects of a mount

vars == <<dataset, rootIri, nodes, loading, inflight, timers, console,
          sview, snodes, sloading, sinflight, slabels, sexpandedItems,
          bookmarks, fieldStates, lastFocusedInputId, isUpdatingFromStore,
          effectDeps>>

\* the bookmark store and the state of the synchronisation with it
bvars == <<bookmarks, fieldStates, lastFocusedInputId, isUpdatingFromStore,
           effectDeps>>

gvars == <<rootIri, nodes, loading, inflight, timers, console>>

svars == <<sview, snodes, sloading, sinflight, slabels, sexpandedItems>>

----------------------------------------------------------------------------
(* Bounds of the model *)

\* an expansion is requested only while the node map holds at most this many nodes
MaxNodes == 7

\* at most this many asynchronous callbacks (suspended expansions, label lookups
\* and timers) are pending at a time
MaxPending == 2

----------------------------------------------------------------------------
(* Optional values and strings *)

None == << >>

Some(x) == <<x>>

\* JavaScript truthiness of an optional string: defined and not empty
Truthy(m) == m # None /\ m[1] # << >>

Str(tok) == <<tok>>

A == Str("A")

B == Str("B")

P == Str("P")

Q == Str("Q")

X == Str("x")

Y == Str("y")

C == Str("C")

RdfsLabel == Str("rdfs:label")

\* String.prototype.trim on token strings: drop leading and trailing blanks
RECURSIVE TrimLeft(_)
TrimLeft(s) == IF s # << >> /\ Head(s) = " " THEN TrimLeft(Tail(s)) ELSE s

RECURSIVE TrimRight(_)
TrimRight(s) ==
    IF s # << >> /\ s[Len(s)] = " " THEN TrimRight(SubSeq(s, 1, Len(s) - 1)) ELSE s

Trim(s) == TrimRight(TrimLeft(s))

\* code-unit order of the tokens used in predicate names (Array.prototype.sort)
TokenRank(tok) ==
    CASE tok = " " -> 0
      [] tok = "->" -> 1
      [] tok = ":" -> 2
      [] tok = "A" -> 3
      [] tok = "B" -> 4
      [] tok = "P" -> 5
      [] tok = "Q" -> 6
      [] OTHER -> 7

RECURSIVE StrLess(_, _)
StrLess(s, t) ==
    IF t = << >> THEN FALSE
    ELSE IF s = << >> THEN TRUE
    ELSE IF TokenRank(Head(s)) # TokenRank(Head(t))
         THEN TokenRank(Head(s)) < TokenRank(Head(t))
    ELSE StrLess(Tail(s), Tail(t))

\* the elements of a finite set of strings in descending order
RECURSIVE SortStrings_Descending(_)
SortStrings_Descending(S) ==
    IF S = {} THEN << >>
    ELSE LET greatest == CHOOSE s \in S : \A t \in S \ {s} : StrLess(t, s)
         IN <<greatest>> \o SortStrings_Descending(S \ {greatest})

\* the elements of a finite set of strings in ascending order
RECURSIVE SortStrings(_)
SortStrings(S) ==
    IF S = {} THEN << >>
    ELSE LET least == CHOOSE s \in S : \A t \in S \ {s} : StrLess(s, t)
         IN <<least>> \o SortStrings(S \ {least})

----------------------------------------------------------------------------
(* The triple source *)

NamedNode(iri) == [termType |-> "NamedNode", value |-> iri, language |-> ""]

Literal(v, lang) == [termType |-> "Literal", value |-> v, language |-> lang]

BlankNode(v) == [termType |-> "BlankNode", value |-> v, language |-> ""]

Quad(s, p, o) == [subject |-> s, predicate |-> NamedNode(p), object |-> o]

\* dataset.match(subject, predicate, object): null (None) is a wildcard
match(ds, s, p, o) ==
    SelectSeq(ds, LAMBDA q :
        /\ (s = None \/ q.subject = s[1])
        /\ (p = None \/ q.predicate = p[1])
        /\ (o = None \/ q.object = o[1]))

\* the default of the limit parameter of loadObjects and loadSubjects
ResultLimit == 100

\* the sources explored by the model, each a duplicate-free sequence of quads
NoTriples == << >>

SingleLiteral == <<Quad(NamedNode(A), P, Literal(X, ""))>>

TwoLiterals ==
    <<Quad(NamedNode(A), P, Literal(X, "")), Quad(NamedNode(A), P, Literal(Y, ""))>>

SameTextLiterals ==
    <<Quad(NamedNode(A), P, Literal(X, "en")), Quad(NamedNode(A), P, Literal(X, "fr"))>>

LiteralAndResource ==
    <<Quad(NamedNode(A), P, Literal(X, "")), Quad(NamedNode(A), P, NamedNode(B)),
      Quad(NamedNode(A), P, BlankNode(Y))>>

SameTextLiteralAndResource ==
    <<Quad(NamedNode(A), P, Literal(B, "")), Quad(NamedNode(A), P, NamedNode(B))>>

SelfLoop == <<Quad(NamedNode(A), P, NamedNode(A))>>

\* the i-th of the resources related to A in the source that exceeds the cap
V(i) == <<"v", ToString(i)>>

\* one more object of (A, P, *) and one more subject of (*, Q, A) than the
\* queries consider
OverCap ==
    [i \in 1..(ResultLimit + 1) |-> Quad(NamedNode(A), P, NamedNode(V(i)))]
        \o [i \in 1..(ResultLimit + 1) |-> Quad(NamedNode(V(i)), Q, NamedNode(A))]

\* two predicates, met in descending order and one of them twice, in both
\* directions of A
TwoPredicates ==
    <<Quad(NamedNode(A), Q, NamedNode(A)),
      Quad(NamedNode(A), P, NamedNode(A)),
      Quad(NamedNode(A), Q, Literal(X, "")),
      Quad(NamedNode(B), Q, NamedNode(A))>>

\* a blank node and a named resource as subjects of the same predicate and object
BlankSubject ==
    <<Quad(BlankNode(B), P, NamedNode(A)), Quad(NamedNode(B), P, NamedNode(A))>>

\* C is related to A directly and through B, and has a label
SharedChild ==
    <<Quad(NamedNode(A), P, NamedNode(B)),
      Quad(NamedNode(A), P, NamedNode(C)),
      Quad(NamedNode(B), P, NamedNode(C)),
      Quad(NamedNode(C), RdfsLabel, Literal(X, ""))>>

\* the only triple of A has a blank node as its object
OnlyBlankObject == <<Quad(NamedNode(A), P, BlankNode(Y))>>

Datasets ==
    {NoTriples, SingleLiteral, TwoLiterals, SameTextLiterals, LiteralAndResource,
     SameTextLiteralAndResource, SelfLoop, OverCap, TwoPredicates, BlankSubject,
     SharedChild, OnlyBlankObject}

----------------------------------------------------------------------------
(* GraphBrowser: node data and identities *)

\* a NodeData record; optional fields are None when undefined
NodeData(type, iri, predicate, loaded, parentType, isLiteral, literalValue, parentNodeId) ==
    [type |-> type, iri |-> iri, predicate |-> predicate, loaded |-> loaded,
     children |-> None, parentType |-> parentType, isLiteral |-> isLiteral,
     literalValue |-> literalValue, objectInfo |-> None,
     singleLiteralValue |-> None, parentNodeId |-> parentNodeId]

\* an id that leaves the parent out
getNodeId_NoParent(type, iri, predicate, parentNodeId) ==
    IF Truthy(predicate)
    THEN <<type, ":">> \o iri \o <<":">> \o predicate[1]
    ELSE <<type, ":">> \o iri

\* getNodeId: `${parentNodeId}->${type}:${iri}` or `...${type}:${iri}:${predicate}`
getNodeId(type, iri, predicate, parentNodeId) ==
    LET baseId == IF Truthy(predicate)
                  THEN <<type, ":">> \o iri \o <<":">> \o predicate[1]
                  ELSE <<type, ":">> \o iri
    IN IF Truthy(parentNodeId) THEN parentNodeId[1] \o <<"->">> \o baseId ELSE baseId

\* Map.set of every entry of g into f
MapSetAll(f, g) ==
    [k \in DOMAIN f \cup DOMAIN g |-> IF k \in DOMAIN g THEN g[k] ELSE f[k]]

EmptyMap == [k \in {} |-> None]

\* the map built by `if (!newNodes.has(id)) newNodes.set(id, rec)` over ids, in order
SetIfAbsent(ids, recs) ==
    [id \in {ids[i] : i \in DOMAIN ids} |->
        recs[CHOOSE i \in DOMAIN ids : ids[i] = id /\ \A j \in 1..(i - 1) : ids[j] # id]]

----------------------------------------------------------------------------
(* GraphBrowser: the queries *)

\* a query loop without the break at the limit
Take_NoLimit(s, limit) == s

\* the first `limit` elements of a sequence
Take(s, limit) == SubSeq(s, 1, IF Len(s) < limit THEN Len(s) ELSE limit)

Range(s) == {s[i] : i \in DOMAIN s}

loadOutgoingPredicates(ds, iri) ==
    LET matches == match(ds, Some(NamedNode(iri)), None, None)
        predicates == Range([i \in DOMAIN matches |-> matches[i].predicate.value])
    IN SortStrings(predicates)

loadIncomingPredicates(ds, iri) ==
    LET matches == match(ds, None, None, Some(NamedNode(iri)))
        predicates == Range([i \in DOMAIN matches |-> matches[i].predicate.value])
    IN SortStrings(predicates)

loadObjects(ds, subjectIri, predicateIri, limit) ==
    LET matches == match(ds, Some(NamedNode(subjectIri)), Some(NamedNode(predicateIri)), None)
        seen == Take(matches, limit)
        kept == SelectSeq(seen, LAMBDA q : q.object.termType \in {"NamedNode", "Literal"})
    IN [i \in DOMAIN kept |->
          [value |-> kept[i].object.value, isLiteral |-> kept[i].object.termType = "Literal"]]

\* loadSubjects without the test of the subject's term type
loadSubjects_AnySubject(ds, objectIri, predicateIri, limit) ==
    LET matches == match(ds, None, Some(NamedNode(predicateIri)), Some(NamedNode(objectIri)))
        seen == Take(matches, limit)
    IN [i \in DOMAIN seen |-> seen[i].subject.value]

loadSubjects(ds, objectIri, predicateIri, limit) ==
    LET matches == match(ds, None, Some(NamedNode(predicateIri)), Some(NamedNode(objectIri)))
        seen == Take(matches, limit)
        kept == SelectSeq(seen, LAMBDA q : q.subject.termType = "NamedNode")
    IN [i \in DOMAIN kept |-> kept[i].subject.value]

----------------------------------------------------------------------------
(* GraphBrowser: the child resolver (body of the try block of loadNodeChildren) *)

\* the result of one resolution: the nodes to set and the children list
Resolved(newNodes, children) == [newNodes |-> newNodes, children |-> children]

\* a resolver that gives a root or object node the "out" node only
DirectionGroups_OutOnly(nodeId, node) ==
    LET outNodeId == getNodeId("out", node.iri, None, Some(nodeId))
    IN Resolved(
         (outNodeId :> NodeData("out", node.iri, None, FALSE, None, None, None, Some(nodeId))),
         <<outNodeId>>)

\* root and non-literal object nodes: an "in" and an "out" node
DirectionGroups(nodeId, node) ==
    LET inNodeId == getNodeId("in", node.iri, None, Some(nodeId))
        outNodeId == getNodeId("out", node.iri, None, Some(nodeId))
        ids == <<inNodeId, outNodeId>>
        recs == <<NodeData("in", node.iri, None, FALSE, None, None, None, Some(nodeId)),
                  NodeData("out", node.iri, None, FALSE, None, None, None, Some(nodeId))>>
    IN Resolved(SetIfAbsent(ids, recs), ids)

\* "in" and "out" nodes: one predicate node per predicate
PredicateGroups(nodeId, node, predicates, parentType) ==
    LET ids == [i \in DOMAIN predicates |->
                  getNodeId("predicate", node.iri, Some(predicates[i]), Some(nodeId))]
        recs == [i \in DOMAIN predicates |->
                  NodeData("predicate", node.iri, Some(predicates[i]), FALSE,
                           Some(parentType), None, None, Some(nodeId))]
    IN Resolved([id \in Range(ids) |->
                    recs[CHOOSE i \in DOMAIN ids : ids[i] = id /\ \A j \in (i + 1)..Len(ids) : ids[j] # id]],
                ids)

\* the object node of one result of an outgoing predicate
ObjectNode(nodeId, obj, allLiterals) ==
    IF allLiterals
    THEN NodeData("object", obj.value, None, FALSE, None, Some(TRUE), Some(obj.value), Some(nodeId))
    ELSE NodeData("object", obj.value, None, FALSE, None, Some(obj.isLiteral),
                  IF obj.isLiteral THEN Some(obj.value) ELSE None, Some(nodeId))

\* an outgoing predicate node without the collapse of a single literal
OutgoingObjects_NoCollapse(nodeId, node, objects) ==
    LET allLiterals == \A i \in DOMAIN objects : objects[i].isLiteral
        ids == [i \in DOMAIN objects |->
                  getNodeId("object", objects[i].value, None, Some(nodeId))]
        recs == [i \in DOMAIN objects |-> ObjectNode(nodeId, objects[i], allLiterals)]
    IN Resolved(
         MapSetAll(SetIfAbsent(ids, recs),
                   (nodeId :> [node EXCEPT !.objectInfo = Some(objects)])),
         ids)

\* an outgoing predicate node: the literal collapse policy
OutgoingObjects(nodeId, node, objects) ==
    LET allLiterals == \A i \in DOMAIN objects : objects[i].isLiteral
    IN IF allLiterals /\ Len(objects) = 1
       THEN Resolved(
              (nodeId :> [node EXCEPT !.loaded = TRUE,
                                      !.singleLiteralValue = Some(objects[1].value),
                                      !.objectInfo = Some(objects),
                                      !.children = Some(<< >>)]),
              << >>)
       ELSE LET ids == [i \in DOMAIN objects |->
                          getNodeId("object", objects[i].value, None, Some(nodeId))]
                recs == [i \in DOMAIN objects |-> ObjectNode(nodeId, objects[i], allLiterals)]
            IN Resolved(
                 MapSetAll(SetIfAbsent(ids, recs),
                           (nodeId :> [node EXCEPT !.objectInfo = Some(objects)])),
                 ids)

\* an incoming predicate node: one expandable object node per subject
IncomingSubjects(nodeId, node, subjects) ==
    LET ids == [i \in DOMAIN subjects |->
                  getNodeId("object", subjects[i], None, Some(nodeId))]
        recs == [i \in DOMAIN subjects |->
                  NodeData("object", subjects[i], None, FALSE, None, Some(FALSE), None, Some(nodeId))]
    IN Resolved(SetIfAbsent(ids, recs), ids)

\* a literal object node resolved like a resource
LiteralLeaf_AsResource(nodeId, node) == DirectionGroups(nodeId, node)

\* a literal object node is a leaf
LiteralLeaf(nodeId, node) ==
    Resolved((nodeId :> [node EXCEPT !.loaded = TRUE, !.children = Some(<< >>)]), << >>)

\* whether resolving the node awaits a pattern query
AwaitsQuery(node) ==
    \/ node.type \in {"in", "out"}
    \/ node.type = "predicate" /\ node.iri # << >> /\ Truthy(node.predicate)

\* a resolver that puts the groups of a resource object node under a root path
ResolveChildren_ObjectAsRootPath(ds, nodeId, node) ==
    CASE node.type = "root" -> DirectionGroups(nodeId, node)
      [] node.type = "out" ->
            PredicateGroups(nodeId, node, loadOutgoingPredicates(ds, node.iri), "out")
      [] node.type = "in" ->
            PredicateGroups(nodeId, node, loadIncomingPredicates(ds, node.iri), "in")
      [] node.type = "predicate" ->
            IF node.iri # << >> /\ Truthy(node.predicate)
            THEN IF node.parentType = Some("out")
                 THEN OutgoingObjects(nodeId, node,
                                      loadObjects(ds, node.iri, node.predicate[1], ResultLimit))
                 ELSE IncomingSubjects(nodeId, node,
                                       loadSubjects(ds, node.iri, node.predicate[1], ResultLimit))
            ELSE Resolved(EmptyMap, << >>)
      [] node.type = "object" ->
            IF node.isLiteral = Some(TRUE) THEN LiteralLeaf(nodeId, node)
            ELSE DirectionGroups(getNodeId("root", node.iri, None, None), node)

\* newNodes and children computed for the node read at the start of the expansion
ResolveChildren(ds, nodeId, node) ==
    CASE node.type = "root" -> DirectionGroups(nodeId, node)
      [] node.type = "out" ->
            PredicateGroups(nodeId, node, loadOutgoingPredicates(ds, node.iri), "out")
      [] node.type = "in" ->
            PredicateGroups(nodeId, node, loadIncomingPredicates(ds, node.iri), "in")
      [] node.type = "predicate" ->
            IF node.iri # << >> /\ Truthy(node.predicate)
            THEN IF node.parentType = Some("out")
                 THEN OutgoingObjects(nodeId, node,
                                      loadObjects(ds, node.iri, node.predicate[1], ResultLimit))
                 ELSE IncomingSubjects(nodeId, node,
                                       loadSubjects(ds, node.iri, node.predicate[1], ResultLimit))
            ELSE Resolved(EmptyMap, << >>)
      [] node.type = "object" ->
            IF node.isLiteral = Some(TRUE) THEN LiteralLeaf(nodeId, node)
            ELSE DirectionGroups(nodeId, node)

\* an updater that leaves the node unloaded when it has no children
WriteBack_UnlessEmpty(prevNodes, nodeId, res) ==
    LET updatedNodes == MapSetAll(prevNodes, res.newNodes)
    IN IF /\ nodeId \in DOMAIN updatedNodes
          /\ updatedNodes[nodeId].singleLiteralValue = None
          /\ res.children # << >>
       THEN [updatedNodes EXCEPT ![nodeId] =
                [@ EXCEPT !.loaded = TRUE, !.children = Some(res.children)]]
       ELSE updatedNodes

\* the updater passed to setNodes: add the new nodes, then mark the node loaded
WriteBack(prevNodes, nodeId, res) ==
    LET updatedNodes == MapSetAll(prevNodes, res.newNodes)
    IN IF nodeId \in DOMAIN updatedNodes /\ updatedNodes[nodeId].singleLiteralValue = None
       THEN [updatedNodes EXCEPT ![nodeId] =
                [@ EXCEPT !.loaded = TRUE, !.children = Some(res.children)]]
       ELSE updatedNodes

----------------------------------------------------------------------------
(* GraphBrowser: the tree projector (treeItems) *)

\* whether the text contains the given text (String.prototype.includes)
Includes(s, sub) ==
    \E i \in 0..(Len(s) - Len(sub)) : SubSeq(s, i + 1, i + Len(sub)) = sub

StartsWith(s, prefix) == Len(s) >= Len(prefix) /\ SubSeq(s, 1, Len(prefix)) = prefix

LiteralPrefix == <<"literal", ":">>

PlaceholderSuffix == <<":", "placeholder">>

\* only a root gets a placeholder
Expandable_RootOnly(node) == node.type = "root"

\* the node types for which an unloaded node gets a placeholder
Expandable(node) ==
    \/ node.type \in {"root", "in", "out", "predicate"}
    \/ node.type = "object" /\ node.isLiteral # Some(TRUE)

RECURSIVE buildTreeItem(_, _)
RECURSIVE buildChildItems(_, _)

\* the items of the children that are found in the map, in stored order
buildChildItems(ns, childIds) ==
    LET found == SelectSeq(childIds, LAMBDA childId : childId \in DOMAIN ns)
        items == [i \in DOMAIN found |-> buildTreeItem(ns, found[i])[1]]
    IN SubSeq(items, 1, Len(found))

\* the item of a node: None when the node is not in the map, else Some(item)
buildTreeItem(ns, nodeId) ==
    IF nodeId \notin DOMAIN ns THEN None
    ELSE LET node == ns[nodeId]
             isSingleLiteralPredicate ==
                 node.type = "predicate" /\ node.singleLiteralValue # None
             isLiteralObject == node.type = "object" /\ node.isLiteral = Some(TRUE)
             isLiteral == \/ isSingleLiteralPredicate
                          \/ isLiteralObject /\ Truthy(node.literalValue)
             children ==
                 IF isSingleLiteralPredicate \/ isLiteralObject THEN << >>
                 ELSE IF node.children # None /\ Len(node.children[1]) > 0
                      THEN buildChildItems(ns, node.children[1])
                 ELSE IF ~node.loaded /\ Expandable(node)
                      THEN <<[id |-> nodeId \o PlaceholderSuffix, nodeId |-> None,
                              children |-> << >>]>>
                 ELSE << >>
         IN Some([id |-> IF isLiteral THEN LiteralPrefix \o nodeId ELSE nodeId,
                  nodeId |-> Some(nodeId),
                  children |-> children])

\* the root nodes of the map
RootNodeIds(ns) == {id \in DOMAIN ns : ns[id].type = "root"}

\* the projected tree: one item per root node
treeItems(ns) ==
    IF RootNodeIds(ns) = {} THEN << >>
    ELSE LET rootNode == ns[CHOOSE id \in RootNodeIds(ns) : TRUE]
         IN buildTreeItem(ns, getNodeId("root", rootNode.iri, None, None))

\* every item of a sequence of items, at any depth
RECURSIVE ItemsOf(_)
ItemsOf(items) ==
    UNION {LET item == items[i] IN {item} \cup ItemsOf(item.children) : i \in DOMAIN items}

\* the items the tree view lets the user expand: those with children
ExpandableItems(ns) == {it \in ItemsOf(treeItems(ns)) : it.children # << >>}

----------------------------------------------------------------------------
(* The bookmark store (useBookmarkStore) and GraphBrowser's link to it *)

\* the id under which GraphBrowser registers its Start IRI input
inputId == Str("graph-browser-root-iri")

\* the state of the store
StoreState ==
    [bookmarks |-> bookmarks, fieldStates |-> fieldStates,
     lastFocusedInputId |-> lastFocusedInputId]

\* set(...) of the store
SetStore(state) ==
    /\ bookmarks' = state.bookmarks
    /\ fieldStates' = state.fieldStates
    /\ lastFocusedInputId' = state.lastFocusedInputId

setFieldValue(state, id, value) ==
    [state EXCEPT !.fieldStates = MapSetAll(state.fieldStates, id :> value)]

setLastFocusedInputId(state, id) == [state EXCEPT !.lastFocusedInputId = id]

\* a removeField that leaves the recorded focus as it is
removeField_KeepsFocus(state, id) ==
    [state EXCEPT
        !.fieldStates = [f \in DOMAIN state.fieldStates \ {id} |-> state.fieldStates[f]]]

removeField(state, id) ==
    [state EXCEPT
        !.fieldStates = [f \in DOMAIN state.fieldStates \ {id} |-> state.fieldStates[f]],
        !.lastFocusedInputId = IF state.lastFocusedInputId = Some(id) THEN None
                               ELSE state.lastFocusedInputId]

\* a fill that writes to every field
fillFocusedInput_EveryField(state, iri) ==
    IF Truthy(state.lastFocusedInputId)
    THEN [state EXCEPT !.fieldStates = [f \in DOMAIN state.fieldStates \cup
                                                {state.lastFocusedInputId[1]} |-> iri]]
    ELSE state

fillFocusedInput(state, iri) ==
    IF Truthy(state.lastFocusedInputId)
    THEN [state EXCEPT !.fieldStates =
             MapSetAll(state.fieldStates, state.lastFocusedInputId[1] :> iri)]
    ELSE state

\* a saved reference
Bookmark(iri, label, description, hint, addedAt) ==
    [iri |-> iri, label |-> label, description |-> description, hint |-> hint,
     addedAt |-> addedAt]

\* metadata?.key ?? fallback; metadata is None or Some of a record of the
\* keys it gives, a key given as undefined being None
Nullish(metadata, key, fallback) ==
    IF metadata # None /\ key \in DOMAIN metadata[1] /\ metadata[1][key] # None
    THEN metadata[1][key]
    ELSE fallback

\* the sequence without its element at the index (splice(index, 1))
RemoveAt(seq, index) == SubSeq(seq, 1, index - 1) \o SubSeq(seq, index + 1, Len(seq))

\* an addBookmark that forgets what the existing bookmark of the IRI held
addBookmark_Fresh(state, iri, metadata, now) ==
    [state EXCEPT !.bookmarks =
        <<Bookmark(iri, Nullish(metadata, "label", None),
                   Nullish(metadata, "description", None),
                   Nullish(metadata, "hint", None), now)>>
            \o SelectSeq(state.bookmarks, LAMBDA b : b.iri # iri)]

\* addBookmark at the time now: the bookmark of the IRI is put first, taking
\* from an existing bookmark of the IRI what the metadata does not give
addBookmark(state, iri, metadata, now) ==
    LET found == {i \in DOMAIN state.bookmarks : state.bookmarks[i].iri = iri}
    IN IF found # {}
       THEN LET existingIndex == CHOOSE i \in found : \A j \in found : i <= j
                existing == state.bookmarks[existingIndex]
                newBookmark == Bookmark(iri,
                                        Nullish(metadata, "label", existing.label),
                                        Nullish(metadata, "description", existing.description),
                                        Nullish(metadata, "hint", existing.hint),
                                        now)
            IN [state EXCEPT !.bookmarks =
                   <<newBookmark>> \o RemoveAt(state.bookmarks, existingIndex)]
       ELSE [state EXCEPT !.bookmarks =
                <<Bookmark(iri, Nullish(metadata, "label", None),
                           Nullish(metadata, "description", None),
                           Nullish(metadata, "hint", None), now)>> \o state.bookmarks]

removeBookmark(state, iri) ==
    [state EXCEPT !.bookmarks = SelectSeq(state.bookmarks, LAMBDA b : b.iri # iri)]

\* updateBookmark: every key the metadata gives overwrites the bookmark's
updateBookmark(state, iri, metadata) ==
    [state EXCEPT !.bookmarks =
        [i \in DOMAIN state.bookmarks |->
            IF state.bookmarks[i].iri = iri
            THEN [key \in DOMAIN state.bookmarks[i] |->
                     IF key \in DOMAIN metadata THEN metadata[key]
                     ELSE state.bookmarks[i][key]]
            ELSE state.bookmarks[i]]]

\* the store value GraphBrowser selects: state.fieldStates[inputId]
fieldValue == IF inputId \in DOMAIN fieldStates THEN Some(fieldStates[inputId]) ELSE None

\* the effects of the last render of GraphBrowser have run; React runs them
\* before it handles the next user event
EffectsSettled ==
    \/ sview # None
    \/ effectDeps = Some([fieldValue |-> fieldValue, rootIri |-> rootIri])

\* the effects of a render of GraphBrowser, in the order they are declared:
\* (mount) the focus listener is registered; (fieldValue changed) the store
\* value is copied to rootIri; (rootIri changed) rootIri is copied to the
\* store unless isUpdatingFromStore, which is cleared; (either changed)
\* isUpdatingFromStore is set when the two differ.  All of them read the
\* fieldValue and rootIri of the render they belong to.
RunEffects ==
    /\ sview = None
    /\ ~EffectsSettled
    /\ LET mount == effectDeps = None
           fieldValueChanged == mount \/ effectDeps[1].fieldValue # fieldValue
           rootIriChanged == mount \/ effectDeps[1].rootIri # rootIri
           differs == fieldValue # None /\ fieldValue[1] # rootIri
       IN /\ rootIri' = IF fieldValueChanged /\ differs THEN fieldValue[1] ELSE rootIri
          /\ SetStore(IF rootIriChanged /\ ~isUpdatingFromStore
                      THEN setFieldValue(StoreState, inputId, rootIri)
                      ELSE StoreState)
          /\ isUpdatingFromStore' = IF differs THEN TRUE
                                    ELSE IF rootIriChanged THEN FALSE
                                    ELSE isUpdatingFromStore
          /\ effectDeps' = Some([fieldValue |-> fieldValue, rootIri |-> rootIri])
    /\ UNCHANGED <<dataset, nodes, loading, inflight, timers, console, svars>>

\* the focus listener of the Start IRI input
handleFocus ==
    /\ sview = None
    /\ EffectsSettled
    /\ SetStore(setLastFocusedInputId(StoreState, Some(inputId)))
    /\ UNCHANGED <<dataset, gvars, svars, isUpdatingFromStore, effectDeps>>

\* BookmarkDrawer.handleBookmarkClick: a saved reference is selected
handleBookmarkClick(iri) ==
    /\ EffectsSettled
    /\ SetStore(fillFocusedInput(StoreState, iri))
    /\ UNCHANGED <<dataset, gvars, svars, isUpdatingFromStore, effectDeps>>

\* another input than the Start IRI input
OtherInputIds == {Str("other-input")}

\* the texts typed, filled and stored
FieldTexts == {<< >>, A, B}

\* calls of the store by a component that registers another input
OtherSetFieldValue(id, value) ==
    /\ EffectsSettled
    /\ SetStore(setFieldValue(StoreState, id, value))
    /\ UNCHANGED <<dataset, gvars, svars, isUpdatingFromStore, effectDeps>>

OtherSetLastFocusedInputId(id) ==
    /\ EffectsSettled
    /\ SetStore(setLastFocusedInputId(StoreState, id))
    /\ UNCHANGED <<dataset, gvars, svars, isUpdatingFromStore, effectDeps>>

OtherRemoveField(id) ==
    /\ EffectsSettled
    /\ SetStore(removeField(StoreState, id))
    /\ UNCHANGED <<dataset, gvars, svars, isUpdatingFromStore, effectDeps>>

\* at most this many references are saved
MaxBookmarks == 3

\* the IRIs that are bookmarked
BookmarkIris == {A, B, C}

\* the metadata given with a bookmark
Metadatas == {[k \in {} |-> None], [label |-> Some(X)], [label |-> None, hint |-> Some("subject")]}

\* the values Date.now() returns
Times == {1, 2}

\* calls of the bookmark operations of the store
CallAddBookmark(iri, metadata, now) ==
    /\ EffectsSettled
    /\ \/ Len(bookmarks) < MaxBookmarks
       \/ \E i \in DOMAIN bookmarks : bookmarks[i].iri = iri
    /\ SetStore(addBookmark(StoreState, iri, metadata, now))
    /\ UNCHANGED <<dataset, gvars, svars, isUpdatingFromStore, effectDeps>>

CallRemoveBookmark(iri) ==
    /\ EffectsSettled
    /\ SetStore(removeBookmark(StoreState, iri))
    /\ UNCHANGED <<dataset, gvars, svars, isUpdatingFromStore, effectDeps>>

CallUpdateBookmark(iri, metadata) ==
    /\ EffectsSettled
    /\ SetStore(updateBookmark(StoreState, iri, metadata))
    /\ UNCHANGED <<dataset, gvars, svars, isUpdatingFromStore, effectDeps>>

----------------------------------------------------------------------------
(* GraphBrowser: the operations *)

\* the text of a console message (its arguments are not kept)
Log(kind, nodeId) == kind

\* the number of asynchronous callbacks of the general browser that are pending
Pending == BagCardinality(inflight) + Len(timers)

Expansion(nodeId, node) == [nodeId |-> nodeId, node |-> node]

\* loadNodeChildren without the return for a loaded node
loadNodeChildren_NoLoadedCheck(nodeId, currentNodes) ==
    IF nodeId \notin DOMAIN currentNodes
    THEN /\ console' = Log("Node not found", nodeId)
         /\ UNCHANGED <<nodes, loading, inflight>>
    ELSE IF AwaitsQuery(currentNodes[nodeId])
    THEN /\ loading' = TRUE
         /\ inflight' = inflight (+) SetToBag({Expansion(nodeId, currentNodes[nodeId])})
         /\ console' = Log("Loading children for node", nodeId)
         /\ UNCHANGED nodes
    ELSE /\ nodes' = WriteBack(nodes, nodeId,
                               ResolveChildren(dataset, nodeId, currentNodes[nodeId]))
         /\ loading' = FALSE
         /\ console' = Log("Successfully loaded", nodeId)
         /\ UNCHANGED inflight

\* loadNodeChildren up to its first await (or to its end when it awaits nothing);
\* currentNodes is the node map captured by the closure that is called
loadNodeChildren(nodeId, currentNodes) ==
    IF nodeId \notin DOMAIN currentNodes
    THEN /\ console' = Log("Node not found", nodeId)
         /\ UNCHANGED <<nodes, loading, inflight>>
    ELSE IF currentNodes[nodeId].loaded
    THEN /\ console' = Log("Node already loaded", nodeId)
         /\ UNCHANGED <<nodes, loading, inflight>>
    ELSE IF AwaitsQuery(currentNodes[nodeId])
    THEN /\ loading' = TRUE
         /\ inflight' = inflight (+) SetToBag({Expansion(nodeId, currentNodes[nodeId])})
         /\ console' = Log("Loading children for node", nodeId)
         /\ UNCHANGED nodes
    ELSE /\ nodes' = WriteBack(nodes, nodeId,
                               ResolveChildren(dataset, nodeId, currentNodes[nodeId]))
         /\ loading' = FALSE
         /\ console' = Log("Successfully loaded", nodeId)
         /\ UNCHANGED inflight

\* the texts the user types into the Start IRI input, per explored source
RootInputs(ds) == IF Len(ds) <= 1 /\ ds # SelfLoop THEN {A, <<" ">> \o B} ELSE {A}

\* onChange of the Start IRI input
onChange(value) ==
    /\ sview = None
    /\ EffectsSettled
    /\ value # rootIri
    /\ rootIri' = value
    /\ UNCHANGED <<dataset, bvars, nodes, loading, inflight, timers, console, svars>>

\* handleLoadRoot: replace the map by the new root and schedule its expansion
handleLoadRoot ==
    /\ sview = None
    /\ EffectsSettled
    /\ Trim(rootIri) # << >>
    /\ Pending < MaxPending
    /\ LET rootNodeId == getNodeId("root", Trim(rootIri), None, None)
       IN /\ nodes' = (rootNodeId :>
                         NodeData("root", Trim(rootIri), None, FALSE, None, None, None, None))
          /\ timers' = Append(timers,
                 [nodeId |-> rootNodeId,
                  currentNodes |-> [id \in DOMAIN nodes \cap {rootNodeId} |-> nodes[id]]])
    /\ UNCHANGED <<dataset, bvars, rootIri, loading, inflight, console, svars>>

\* the setTimeout callback of handleLoadRoot: loadNodeChildren of the closure
TimerFires ==
    /\ timers # << >>
    /\ timers' = Tail(timers)
    /\ loadNodeChildren(Head(timers).nodeId, Head(timers).currentNodes)
    /\ UNCHANGED <<dataset, bvars, rootIri, svars>>

\* handleExpandedItemsChange with one newly expanded item
handleExpandedItemsChange(itemId) ==
    /\ sview = None
    /\ EffectsSettled
    /\ Pending < MaxPending
    /\ Cardinality(DOMAIN nodes) <= MaxNodes
    /\ LET actualNodeId == IF StartsWith(itemId, LiteralPrefix)
                           THEN SubSeq(itemId, Len(LiteralPrefix) + 1, Len(itemId))
                           ELSE itemId
       IN IF Includes(itemId, PlaceholderSuffix)
          THEN UNCHANGED <<nodes, loading, inflight, console>>
          ELSE loadNodeChildren(actualNodeId, nodes)
    /\ UNCHANGED <<dataset, bvars, rootIri, timers, svars>>

\* loadNodeChildren after its await: the query succeeded
CompleteExpansion(e) ==
    /\ nodes' = WriteBack(nodes, e.nodeId, ResolveChildren(dataset, e.nodeId, e.node))
    /\ inflight' = inflight (-) SetToBag({e})
    /\ loading' = FALSE
    /\ console' = Log("Successfully loaded", e.nodeId)
    /\ UNCHANGED <<dataset, bvars, rootIri, timers, svars>>

\* a failing expansion that marks its node loaded with no children
FailExpansion_MarksLoaded(e) ==
    /\ nodes' = WriteBack(nodes, e.nodeId, Resolved(EmptyMap, << >>))
    /\ inflight' = inflight (-) SetToBag({e})
    /\ loading' = FALSE
    /\ console' = Log("Error loading node children", e.nodeId)
    /\ UNCHANGED <<dataset, bvars, rootIri, timers, svars>>

\* loadNodeChildren after its await: the query threw
FailExpansion(e) ==
    /\ inflight' = inflight (-) SetToBag({e})
    /\ loading' = FALSE
    /\ console' = Log("Error loading node children", e.nodeId)
    /\ UNCHANGED <<dataset, bvars, rootIri, nodes, timers, svars>>

----------------------------------------------------------------------------
(* The specialized browser (SpecializedGraphBrowser) *)

SpecializedNode(iri, label, loaded, children) ==
    [iri |-> iri, label |-> label, loaded |-> loaded, children |-> children]

\* the hand-off message App keeps while the specialized view is shown
SpecializedView(startIri, predicateIri, direction) ==
    [startIri |-> startIri, predicateIri |-> predicateIri, direction |-> direction]

\* loadLabel: the value of the first literal rdfs:label of the IRI, if any
loadLabel(ds, iri) ==
    LET matches == match(ds, Some(NamedNode(iri)), Some(NamedNode(RdfsLabel)), None)
        literals == SelectSeq(matches, LAMBDA q : q.object.termType = "Literal")
    IN IF literals = << >> THEN None ELSE Some(literals[1].object.value)

\* loadChildren without the filter on the kind of the object
loadChildren_AnyObject(ds, iri, predicateIri) ==
    LET matches == match(ds, Some(NamedNode(iri)), Some(NamedNode(predicateIri)), None)
    IN [i \in DOMAIN matches |-> matches[i].object.value]

\* loadChildren: the named-node objects of (iri, predicate, *), in source order
loadChildren(ds, iri, predicateIri) ==
    LET matches == match(ds, Some(NamedNode(iri)), Some(NamedNode(predicateIri)), None)
        named == SelectSeq(matches, LAMBDA q : q.object.termType = "NamedNode")
    IN [i \in DOMAIN named |-> named[i].object.value]

\* loadParents: the named-node subjects of (*, predicate, iri), in source order
loadParents(ds, iri, predicateIri) ==
    LET matches == match(ds, None, Some(NamedNode(predicateIri)), Some(NamedNode(iri)))
        named == SelectSeq(matches, LAMBDA q : q.subject.termType = "NamedNode")
    IN [i \in DOMAIN named |-> named[i].subject.value]

\* the nodes the traversal relates to the IRI, by the direction of the view
relatedNodes(ds, view, iri) ==
    IF view.direction = "out" THEN loadChildren(ds, iri, view.predicateIri)
    ELSE loadParents(ds, iri, view.predicateIri)

\* a label callback that replaces the record of a child by a fresh one
SetChildLabels_FreshRecords(ds, currentNodes, childIris) ==
    [iri \in DOMAIN currentNodes \cup Range(childIris) |->
        IF iri \notin Range(childIris) THEN currentNodes[iri]
        ELSE SpecializedNode(iri, loadLabel(ds, iri), FALSE, None)]

\* the label callback: each child gets its label, a child without a record
\* gets an unloaded one; the children are visited in order
SetChildLabels(ds, currentNodes, childIris) ==
    [iri \in DOMAIN currentNodes \cup Range(childIris) |->
        IF iri \notin Range(childIris) THEN currentNodes[iri]
        ELSE IF iri \in DOMAIN currentNodes
             THEN [currentNodes[iri] EXCEPT !.label = loadLabel(ds, iri)]
        ELSE SpecializedNode(iri, loadLabel(ds, iri), FALSE, None)]

\* the namespaces shortenUri abbreviates; "/" and "#" are tokens of an IRI
PrefixMap ==
    <<[fullPrefix |-> <<"http:", "/", "/", "www.w3.org", "/", "2000", "/", "01", "/", "rdf-schema", "#">>,
       shortPrefix |-> <<"rdfs:">>],
      [fullPrefix |-> <<"http:", "/", "/", "www.w3.org", "/", "1999", "/", "02", "/", "22-rdf-syntax-ns", "#">>,
       shortPrefix |-> <<"rdf:">>],
      [fullPrefix |-> <<"http:", "/", "/", "www.w3.org", "/", "2002", "/", "07", "/", "owl", "#">>,
       shortPrefix |-> <<"owl:">>],
      [fullPrefix |-> <<"http:", "/", "/", "www.w3.org", "/", "2004", "/", "02", "/", "skos", "/", "core", "#">>,
       shortPrefix |-> <<"skos:">>],
      [fullPrefix |-> <<"http:", "/", "/", "xmlns.com", "/", "foaf", "/", "0.1", "/">>,
       shortPrefix |-> <<"foaf:">>],
      [fullPrefix |-> <<"http:", "/", "/", "schema.org", "/">>,
       shortPrefix |-> <<"schema:">>]>>

\* the greatest index up to `last` at which the text holds one of the tokens, or 0
LastIndexIn(s, toks, last) ==
    LET hits == {k \in 1..last : s[k] \in toks}
    IN IF hits = {} THEN 0 ELSE CHOOSE k \in hits : \A j \in hits : j <= k

\* shortenUri of the specialized view
shortenUri(uri) ==
    LET known == {i \in DOMAIN PrefixMap : StartsWith(uri, PrefixMap[i].fullPrefix)}
        k == LastIndexIn(uri, {"/", "#"}, Len(uri))
        slash == LastIndexIn(uri, {"/"}, k)
        before == IF slash = 0 THEN 0 ELSE LastIndexIn(uri, {"/"}, slash - 1)
        lastPart == IF slash < k THEN SubSeq(uri, slash + 1, k)
                    ELSE SubSeq(uri, before + 1, slash - 1)
    IN IF known # {}
       THEN LET i == CHOOSE i \in known : \A j \in known : i <= j
            IN PrefixMap[i].shortPrefix
                  \o SubSeq(uri, Len(PrefixMap[i].fullPrefix) + 1, Len(uri))
       ELSE IF k >= 2 /\ k < Len(uri) /\ lastPart # << >>
            THEN lastPart \o <<":">> \o SubSeq(uri, k + 1, Len(uri))
       ELSE IF Len(uri) > 50
            THEN <<"...">> \o SubSeq(uri, Len(uri) - 49, Len(uri))
       ELSE uri

\* the label of an item: the short IRI, and the rdfs:label after a bar if any
formattedLabel(iri, label) ==
    IF Truthy(label) THEN shortenUri(iri) \o <<" | ">> \o label[1] ELSE shortenUri(iri)

\* the recursion of the specialized buildTreeItem does not end: a node with
\* children is met again below itself
RECURSIVE BuildRecursesForever(_, _, _)
BuildRecursesForever(ns, iri, path) ==
    /\ iri \in DOMAIN ns
    /\ \/ iri \in path
       \/ /\ ns[iri].children # None
          /\ \E i \in DOMAIN ns[iri].children[1] :
                BuildRecursesForever(ns, ns[iri].children[1][i], path \cup {iri})

RECURSIVE SpecializedBuildTreeItem(_, _)
RECURSIVE SpecializedBuildChildItems(_, _)

SpecializedBuildChildItems(ns, childIris) ==
    LET found == SelectSeq(childIris, LAMBDA childIri : childIri \in DOMAIN ns)
        items == [i \in DOMAIN found |-> SpecializedBuildTreeItem(ns, found[i])[1]]
    IN SubSeq(items, 1, Len(found))

\* the specialized buildTreeItem, for a map on which its recursion ends
SpecializedBuildTreeItem(ns, iri) ==
    IF iri \notin DOMAIN ns THEN None
    ELSE LET node == ns[iri]
             children ==
                 IF node.children # None /\ Len(node.children[1]) > 0
                 THEN SpecializedBuildChildItems(ns, node.children[1])
                 ELSE IF ~node.loaded
                      THEN <<[id |-> iri \o PlaceholderSuffix, label |-> <<"...">>,
                              children |-> << >>]>>
                 ELSE << >>
         IN Some([id |-> iri, label |-> formattedLabel(iri, node.label),
                  children |-> children])

\* the tree of the specialized view
SpecializedTreeItems(ns, startNodeIri) ==
    IF DOMAIN ns = {} \/ startNodeIri \notin DOMAIN ns THEN << >>
    ELSE SpecializedBuildTreeItem(ns, startNodeIri)

\* rendering the specialized tree overflows the stack; no error boundary
\* catches it, so the application is unmounted
RenderThrows ==
    /\ sview # None
    /\ BuildRecursesForever(snodes, sview[1].startIri, {})

SpecializedExpandableItems ==
    IF sview = None \/ RenderThrows THEN {}
    ELSE {it \in ItemsOf(SpecializedTreeItems(snodes, sview[1].startIri)) :
             it.children # << >>}

SpecializedPending == BagCardinality(sinflight) + BagCardinality(slabels)

\* the loadNode calls of one handler, up to their await
StartLoadNodes(iris) ==
    /\ sinflight' = sinflight (+) [iri \in iris |-> 1]
    /\ sloading' = (iris # {} \/ sloading)

\* whether the text ends with the given text (String.prototype.endsWith)
EndsWith(s, suffix) ==
    Len(s) >= Len(suffix) /\ SubSeq(s, Len(s) - Len(suffix) + 1, Len(s)) = suffix

\* the last element of split(':')
LastPart(s) ==
    LET colons == {i \in DOMAIN s : s[i] = ":"}
        last == IF colons = {} THEN 0 ELSE CHOOSE i \in colons : \A j \in colons : j <= i
    IN SubSeq(s, last + 1, Len(s))

\* the groups of the match of /predicate:([^:]+):(.+)$/, if the text matches
PredicateMatch(s) ==
    LET starts == {i \in DOMAIN s :
                     /\ s[i] = "predicate"
                     /\ i + 4 <= Len(s)
                     /\ s[i + 1] = ":"
                     /\ s[i + 2] # ":"}
    IN IF starts = {} THEN None
       ELSE LET i == CHOOSE k \in starts : \A j \in starts : k <= j
                colons == {k \in (i + 3)..(Len(s) - 1) : s[k] = ":"}
            IN IF colons = {} THEN None
               ELSE LET c == CHOOSE k \in colons : \A j \in colons : k <= j
                    IN Some([subjectIri |-> SubSeq(s, i + 2, c - 1),
                             predicateIri |-> SubSeq(s, c + 1, Len(s))])

\* onContextMenu: the nodes the menu may be opened for by a right click on the
\* item: the node of the item, or, when the map has no node of that id, the
\* first predicate node found by suffix, by subject and predicate, or by the
\* last part of the id (the map is searched in insertion order, which is not
\* kept here: any match may be the first)
ContextMenuNodes(ns, itemId) ==
    LET actualNodeId == IF StartsWith(itemId, LiteralPrefix)
                        THEN SubSeq(itemId, Len(LiteralPrefix) + 1, Len(itemId))
                        ELSE itemId
        predicates == {n \in DOMAIN ns : ns[n].type = "predicate"}
        bySuffix == {n \in predicates : EndsWith(n, actualNodeId)}
        predicateMatch == PredicateMatch(actualNodeId)
        byPredicate ==
            IF predicateMatch = None THEN {}
            ELSE {n \in predicates :
                     /\ ns[n].predicate = Some(predicateMatch[1].predicateIri)
                     /\ ns[n].iri = predicateMatch[1].subjectIri}
        byLastPart == {n \in predicates :
                         /\ Truthy(ns[n].predicate)
                         /\ EndsWith(ns[n].predicate[1], LastPart(actualNodeId))}
        matched == IF actualNodeId \in DOMAIN ns THEN {actualNodeId}
                   ELSE IF bySuffix # {} THEN bySuffix
                   ELSE IF byPredicate # {} THEN byPredicate
                   ELSE byLastPart
    IN {n \in matched : ns[n].type = "predicate" /\ Truthy(ns[n].predicate)}

\* a direction the menu never offers
SpecializeDirections_Swapped(node) ==
    IF node.parentType = Some("in") THEN {"out"}
    ELSE IF node.parentType = Some("out") \/ ~Truthy(node.parentType) THEN {"in"}
    ELSE {}

\* the "Specialize" entries of the menu of a predicate node
SpecializeDirections(node) ==
    IF node.parentType = Some("in") THEN {"in"}
    ELSE IF node.parentType = Some("out") \/ ~Truthy(node.parentType) THEN {"out"}
    ELSE {}

\* the right clicks on the general tree that open a menu with a "Specialize"
\* entry: the item clicked and the node the menu is opened for
SpecializableItems(ns) ==
    {click \in UNION {{[id |-> it.id, nodeId |-> Some(n)] : n \in ContextMenuNodes(ns, it.id)} :
                        it \in ItemsOf(treeItems(ns))} :
        SpecializeDirections(ns[click.nodeId[1]]) # {}}

\* a mount effect that sets the start node but does not load it
onSelectPredicate_WithoutLoad(nodeId) ==
    /\ sview = None
    /\ EffectsSettled
    /\ LET node == nodes[nodeId]
           direction == CHOOSE d \in SpecializeDirections(node) : TRUE
       IN /\ sview' = Some(SpecializedView(node.iri, node.predicate[1], direction))
          /\ snodes' = (node.iri :> SpecializedNode(node.iri, None, FALSE, None))
          /\ sexpandedItems' = {node.iri}
          /\ sinflight' = EmptyBag
          /\ console' = IF direction = "in" THEN "Clicked Specialize In"
                        ELSE "Clicked Specialize Out"
    /\ sloading' = TRUE
    /\ slabels' = EmptyBag
    /\ rootIri' = << >>
    /\ nodes' = EmptyMap
    /\ loading' = FALSE
    /\ inflight' = EmptyBag
    /\ timers' = << >>
    /\ SetStore(removeField(StoreState, inputId))
    /\ isUpdatingFromStore' = FALSE
    /\ effectDeps' = None
    /\ UNCHANGED dataset

\* "Specialize" in the context menu of a predicate item: App replaces the
\* general browser, whose state and pending callbacks are dropped, by the
\* specialized one, whose mount effect sets the start node and loads it
onSelectPredicate(nodeId) ==
    /\ sview = None
    /\ EffectsSettled
    /\ LET node == nodes[nodeId]
           direction == CHOOSE d \in SpecializeDirections(node) : TRUE
       IN /\ sview' = Some(SpecializedView(node.iri, node.predicate[1], direction))
          /\ snodes' = (node.iri :> SpecializedNode(node.iri, None, FALSE, None))
          /\ sexpandedItems' = {node.iri}
          /\ sinflight' = SetToBag({node.iri})
          /\ console' = IF direction = "in" THEN "Clicked Specialize In"
                        ELSE "Clicked Specialize Out"
    /\ sloading' = TRUE
    /\ slabels' = EmptyBag
    /\ rootIri' = << >>
    /\ nodes' = EmptyMap
    /\ loading' = FALSE
    /\ inflight' = EmptyBag
    /\ timers' = << >>
    /\ SetStore(removeField(StoreState, inputId))
    /\ isUpdatingFromStore' = FALSE
    /\ effectDeps' = None
    /\ UNCHANGED dataset

\* Close: App shows the general browser again, freshly mounted
onClose ==
    /\ sview # None
    /\ ~RenderThrows
    /\ sview' = None
    /\ snodes' = EmptyMap
    /\ sloading' = FALSE
    /\ sinflight' = EmptyBag
    /\ slabels' = EmptyBag
    /\ sexpandedItems' = {}
    /\ UNCHANGED <<dataset, bvars, gvars>>

\* handleExpandedItemsChange of the specialized view with one newly expanded item
SpecializedHandleExpandedItemsChange(itemId) ==
    /\ sview # None
    /\ ~RenderThrows
    /\ itemId \notin sexpandedItems
    /\ sexpandedItems' = sexpandedItems \cup {itemId}
    /\ Cardinality(DOMAIN snodes) <= MaxNodes
    /\ LET started ==
             IF itemId \in DOMAIN snodes /\ ~snodes[itemId].loaded
             THEN {itemId}
             ELSE IF itemId \in DOMAIN snodes /\ snodes[itemId].children # None
             THEN {c \in Range(snodes[itemId].children[1]) :
                      c \notin DOMAIN snodes \/ ~snodes[c].loaded}
             ELSE {}
       IN /\ SpecializedPending + Cardinality(started) <= MaxPending
          /\ StartLoadNodes(started)
    /\ UNCHANGED <<dataset, bvars, gvars, sview, snodes, slabels>>

\* handleExpandedItemsChange of the specialized view when an item is
\* collapsed: no item is newly expanded, so nothing is loaded
SpecializedCollapseItem(itemId) ==
    /\ sview # None
    /\ ~RenderThrows
    /\ itemId \in sexpandedItems
    /\ sexpandedItems' = sexpandedItems \ {itemId}
    /\ UNCHANGED <<dataset, bvars, gvars, sview, snodes, sloading, sinflight, slabels>>

\* a completion that goes on to load the children it found
CompleteLoadNode_LoadsChildren(iri) ==
    /\ sview # None
    /\ ~RenderThrows
    /\ sinflight' = (sinflight (-) SetToBag({iri}))
                        (+) SetToBag(Range(relatedNodes(dataset, sview[1], iri)))
    /\ sloading' = FALSE
    /\ LET label == loadLabel(dataset, iri)
           related == relatedNodes(dataset, sview[1], iri)
       IN IF iri \in DOMAIN snodes /\ snodes[iri].loaded
          THEN UNCHANGED <<snodes, slabels>>
          ELSE /\ snodes' = MapSetAll(snodes,
                     iri :> SpecializedNode(iri, label, TRUE, Some(related)))
               /\ slabels' = IF Len(related) > 0
                             THEN slabels (+) SetToBag({related})
                             ELSE slabels
    /\ UNCHANGED <<dataset, bvars, gvars, sview, sexpandedItems>>

\* loadNode after Promise.all: both queries succeeded
CompleteLoadNode(iri) ==
    /\ sview # None
    /\ ~RenderThrows
    /\ sinflight' = sinflight (-) SetToBag({iri})
    /\ sloading' = FALSE
    /\ LET label == loadLabel(dataset, iri)
           related == relatedNodes(dataset, sview[1], iri)
       IN IF iri \in DOMAIN snodes /\ snodes[iri].loaded
          THEN UNCHANGED <<snodes, slabels>>
          ELSE /\ snodes' = MapSetAll(snodes,
                     iri :> SpecializedNode(iri, label, TRUE, Some(related)))
               /\ slabels' = IF Len(related) > 0
                             THEN slabels (+) SetToBag({related})
                             ELSE slabels
    /\ UNCHANGED <<dataset, bvars, gvars, sview, sexpandedItems>>

\* the two queries loadNode joins with Promise.all
LoadQueries == {"label", "related"}

\* loadNode after Promise.all: the named query threw, so the join rejects,
\* the write-back is skipped and the catch block logs the error
RejectLoadNode(iri, failed) ==
    /\ failed \in LoadQueries
    /\ sview # None
    /\ ~RenderThrows
    /\ sinflight' = sinflight (-) SetToBag({iri})
    /\ sloading' = FALSE
    /\ console' = "Error loading node:"
    /\ UNCHANGED <<dataset, bvars, rootIri, nodes, loading, inflight, timers,
                   sview, snodes, slabels, sexpandedItems>>

\* loadNode after Promise.all: a query threw
FailLoadNode(iri) == \E failed \in LoadQueries : RejectLoadNode(iri, failed)

\* the labels of the children of a loaded node arrive
ChildLabelsArrive(childIris) ==
    /\ sview # None
    /\ ~RenderThrows
    /\ slabels' = slabels (-) SetToBag({childIris})
    /\ snodes' = SetChildLabels(dataset, snodes, childIris)
    /\ UNCHANGED <<dataset, bvars, gvars, sview, sloading, sinflight, sexpandedItems>>

\* a label lookup of the children threw: the error is logged, nothing is written
ChildLabelsFail(childIris) ==
    /\ sview # None
    /\ ~RenderThrows
    /\ slabels' = slabels (-) SetToBag({childIris})
    /\ UNCHANGED <<dataset, bvars, gvars, sview, snodes, sloading, sinflight,
                   sexpandedItems>>

----------------------------------------------------------------------------
(* Specification of the general browser *)

Init ==
    /\ dataset \in Datasets
    /\ rootIri = << >>
    /\ nodes = EmptyMap
    /\ loading = FALSE
    /\ inflight = EmptyBag
    /\ timers = << >>
    /\ console = ""
    /\ sview = None
    /\ snodes = EmptyMap
    /\ sloading = FALSE
    /\ sinflight = EmptyBag
    /\ slabels = EmptyBag
    /\ sexpandedItems = {}
    /\ bookmarks = << >>
    /\ fieldStates = EmptyMap
    /\ lastFocusedInputId = None
    /\ isUpdatingFromStore = FALSE
    /\ effectDeps = None

Next ==
    \/ RunEffects
    \/ \E value \in RootInputs(dataset) : onChange(value)
    \/ handleLoadRoot
    \/ TimerFires
    \/ \E it \in ExpandableItems(nodes) : handleExpandedItemsChange(it.id)
    \/ \E e \in BagToSet(inflight) : CompleteExpansion(e)
    \/ \E e \in BagToSet(inflight) : FailExpansion(e)

Spec == Init /\ [][Next]_vars

\* a timer that is due runs, and so do the effects of a render
FairSpec == Spec /\ WF_vars(TimerFires) /\ WF_vars(RunEffects)

----------------------------------------------------------------------------
(* Specification of the application: both browsers and the hand-off *)

NextApp ==
    \/ Next
    \/ \E it \in SpecializableItems(nodes) : onSelectPredicate(it.nodeId[1])
    \/ onClose
    \/ \E it \in SpecializedExpandableItems : SpecializedHandleExpandedItemsChange(it.id)
    \/ \E it \in SpecializedExpandableItems : SpecializedCollapseItem(it.id)
    \/ \E iri \in BagToSet(sinflight) : CompleteLoadNode(iri)
    \/ \E iri \in BagToSet(sinflight) : FailLoadNode(iri)
    \/ \E childIris \in BagToSet(slabels) : ChildLabelsArrive(childIris)
    \/ \E childIris \in BagToSet(slabels) : ChildLabelsFail(childIris)

SpecApp == Init /\ [][NextApp]_vars

----------------------------------------------------------------------------
(* Specification of the Start IRI input and the bookmark store *)

NextStore ==
    \/ RunEffects
    \/ \E value \in FieldTexts : onChange(value)
    \/ handleFocus
    \/ \E iri \in FieldTexts : handleBookmarkClick(iri)
    \/ \E id \in OtherInputIds : \E value \in FieldTexts : OtherSetFieldValue(id, value)
    \/ \E id \in {None} \cup {Some(i) : i \in OtherInputIds} : OtherSetLastFocusedInputId(id)
    \/ \E id \in OtherInputIds : OtherRemoveField(id)
    \/ \E iri \in BookmarkIris : CallAddBookmark(iri, None, 1)
    \/ \E iri \in BookmarkIris : CallRemoveBookmark(iri)

SpecStore == Init /\ [][NextStore]_vars

\* the effects of a render are run: React never leaves them pending
FairSpecStore == SpecStore /\ WF_vars(RunEffects)

\* the application, where moreover a pending loadNode settles: its two queries
\* are synchronous reads of the in-memory dataset, so the join of their
\* promises resolves or rejects once the event loop runs
LoadNodeSettles ==
    \E iri \in BagToSet(sinflight) : CompleteLoadNode(iri) \/ FailLoadNode(iri)

FairSpecApp == SpecApp /\ WF_vars(LoadNodeSettles)

----------------------------------------------------------------------------
(* Specification of the application with the focus registry: the Start IRI
   input is focused and saved references are selected, in either view *)

NextFocus ==
    \/ NextApp
    \/ handleFocus
    \/ \E iri \in RootInputs(dataset) : handleBookmarkClick(iri)

SpecFocus == Init /\ [][NextFocus]_vars

----------------------------------------------------------------------------
(* Specification of the bookmark list *)

NextBookmarks ==
    \/ RunEffects
    \/ \E iri \in BookmarkIris : \E metadata \in {None} \cup {Some(m) : m \in Metadatas} :
          \E now \in Times : CallAddBookmark(iri, metadata, now)
    \/ \E iri \in BookmarkIris : CallRemoveBookmark(iri)
    \/ \E iri \in BookmarkIris : \E metadata \in Metadatas : CallUpdateBookmark(iri, metadata)

SpecBookmarks == Init /\ [][NextBookmarks]_vars

----------------------------------------------------------------------------
(* Steps of the general browser, as seen by the properties *)

\* the step runs (a part of) an expansion of node n
ExpandsNode(n) ==
    \/ \E e \in BagToSet(inflight) : e.nodeId = n /\ CompleteExpansion(e)
    \/ \E it \in ExpandableItems(nodes) : it.nodeId = Some(n) /\ handleExpandedItemsChange(it.id)
    \/ timers # << >> /\ Head(timers).nodeId = n /\ TimerFires

\* node id is in the map and loaded
IsLoaded(ns, id) == id \in DOMAIN ns /\ ns[id].loaded

\* the ids of the object nodes the map holds under node n
ValueNodesOf(ns, n) ==
    {id \in DOMAIN ns : ns[id].type = "object" /\ ns[id].parentNodeId = Some(n)}

----------------------------------------------------------------------------
(* C1 *)

----------------------------------------------------------------------------
(* C2 *)

\* C2: when two expansions of the same node id overlap, the write-back that
\* comes second (the node is loaded by then) leaves the node map as it was.
C2_SecondWriteBackWritesNothing ==
    [][\A e \in BagToSet(inflight) :
          (IsLoaded(nodes, e.nodeId) /\ CompleteExpansion(e)) => nodes' = nodes]_vars

----------------------------------------------------------------------------
(* C3 *)

\* C3: submitting a root leaves a map that holds only the new unloaded root,
\* and the completion of an expansion whose node is no longer in the map
\* (started under a previous root) writes nothing.
C3_StaleExpansionIgnored ==
    [][/\ handleLoadRoot =>
            /\ DOMAIN nodes' = {getNodeId("root", Trim(rootIri), None, None)}
            /\ \A id \in DOMAIN nodes' : nodes'[id].type = "root" /\ ~nodes'[id].loaded
       /\ \A e \in BagToSet(inflight) :
            (e.nodeId \notin DOMAIN nodes /\ CompleteExpansion(e)) => nodes' = nodes]_vars

----------------------------------------------------------------------------
(* C4 *)

\* C4: in both browsers a failed pattern query leaves the node map exactly as it
\* was before the expansion's write-back would have run: the target node keeps
\* its loaded flag and no child is added; and an expansion request for an
\* unloaded node whose expansion awaits a query (such as the target of a
\* failed expansion) issues the query again.
C4_FailedQueryLeavesMap ==
    [][/\ \A e \in BagToSet(inflight) : FailExpansion(e) => nodes' = nodes
       /\ \A iri \in BagToSet(sinflight) : FailLoadNode(iri) => snodes' = snodes
       /\ \A it \in ExpandableItems(nodes) :
            (/\ it.nodeId # None
             /\ ~nodes[it.nodeId[1]].loaded
             /\ AwaitsQuery(nodes[it.nodeId[1]])
             /\ handleExpandedItemsChange(it.id))
            => inflight' = inflight (+) SetToBag({Expansion(it.nodeId[1], nodes[it.nodeId[1]])})
       /\ \A it \in SpecializedExpandableItems :
            (/\ it.id \in DOMAIN snodes
             /\ ~snodes[it.id].loaded
             /\ SpecializedHandleExpandedItemsChange(it.id))
            => sinflight' = sinflight (+) SetToBag({it.id})]_vars

\* the specialized view logged a failed load and shows its start node
\* unloaded without children, no load pending, so that it can be requested again
C4_Witness ==
    /\ sview # None
    /\ console = "Error loading node:"
    /\ sinflight = EmptyBag
    /\ sview[1].startIri \in DOMAIN snodes
    /\ ~snodes[sview[1].startIri].loaded
    /\ snodes[sview[1].startIri].children = None
    /\ \E it \in SpecializedExpandableItems : it.id = sview[1].startIri

----------------------------------------------------------------------------
(* C5 *)

\* the two direction groups of a loaded root, as the claim describes them
RootHasTwoGroups(ns, id) ==
    LET inId == id \o <<"->", "in", ":">> \o ns[id].iri
        outId == id \o <<"->", "out", ":">> \o ns[id].iri
    IN /\ ns[id].children = Some(<<inId, outId>>)
       /\ inId # outId
       /\ \A g \in {inId, outId} :
            /\ g \in DOMAIN ns
            /\ ns[g].iri = ns[id].iri
            /\ ~ns[g].loaded
            /\ ns[g].children = None
            /\ ns[g].parentNodeId = Some(id)
       /\ ns[inId].type = "in"
       /\ ns[outId].type = "out"

\* the source holds no triple with the IRI as subject or as object
HasNoTriples(ds, iri) ==
    \A i \in DOMAIN ds :
        ds[i].subject # NamedNode(iri) /\ ds[i].object # NamedNode(iri)

\* C5: an expansion of an unloaded root of the map makes it loaded with exactly
\* the two unloaded direction groups "in" and "out" of its IRI, whatever the
\* source holds; for an IRI without triples the completed expansion of either
\* group leaves the group loaded with an empty children list and logs no error.
C5_RootYieldsTwoGroups ==
    [][/\ \A id \in DOMAIN nodes :
            (/\ nodes[id].type = "root"
             /\ ~nodes[id].loaded
             /\ \/ \E it \in ExpandableItems(nodes) :
                      it.nodeId = Some(id) /\ handleExpandedItemsChange(it.id)
                \/ /\ timers # << >>
                   /\ Head(timers).nodeId = id
                   /\ id \in DOMAIN Head(timers).currentNodes
                   /\ ~Head(timers).currentNodes[id].loaded
                   /\ TimerFires)
            => /\ IsLoaded(nodes', id)
               /\ RootHasTwoGroups(nodes', id)
       /\ \A e \in BagToSet(inflight) :
            (/\ e.nodeId \in DOMAIN nodes
             /\ e.node.type \in {"in", "out"}
             /\ HasNoTriples(dataset, e.node.iri)
             /\ CompleteExpansion(e))
            => /\ IsLoaded(nodes', e.nodeId)
               /\ nodes'[e.nodeId].children = Some(<< >>)
               /\ console' # "Error loading node children"]_vars

\* a root without triples is loaded and both its groups are loaded and empty
C5_Witness ==
    \E id \in DOMAIN nodes :
        /\ nodes[id].type = "root"
        /\ nodes[id].loaded
        /\ HasNoTriples(dataset, nodes[id].iri)
        /\ Len(nodes[id].children[1]) = 2
        /\ \A i \in 1..2 :
              /\ IsLoaded(nodes, nodes[id].children[1][i])
              /\ nodes[nodes[id].children[1][i]].children = Some(<< >>)

----------------------------------------------------------------------------
(* C6 *)

----------------------------------------------------------------------------
(* C7 *)

\* C7: node identities are collision-free: no children list holds an id twice,
\* no id is a child of two nodes, and the results of a predicate group that
\* differ in value or in kind have different object node ids.
C7_IdsCollisionFree ==
    /\ \A n \in DOMAIN nodes :
          nodes[n].children # None =>
             \A i, j \in DOMAIN nodes[n].children[1] :
                 i # j => nodes[n].children[1][i] # nodes[n].children[1][j]
    /\ \A n1, n2 \in DOMAIN nodes :
          (n1 # n2 /\ nodes[n1].children # None /\ nodes[n2].children # None)
          => Range(nodes[n1].children[1]) \cap Range(nodes[n2].children[1]) = {}
    /\ \A n \in DOMAIN nodes :
          (nodes[n].objectInfo # None /\ nodes[n].children # None
             /\ Len(nodes[n].children[1]) = Len(nodes[n].objectInfo[1]))
          => \A i, j \in DOMAIN nodes[n].children[1] :
                 nodes[n].objectInfo[1][i] # nodes[n].objectInfo[1][j]
                 => nodes[n].children[1][i] # nodes[n].children[1][j]

----------------------------------------------------------------------------
(* C8, C9, C10: the literal collapse policy *)

\* e is a suspended expansion of an outgoing predicate group
IsOutgoingGroup(e) ==
    /\ e.node.type = "predicate"
    /\ e.node.parentType = Some("out")
    /\ e.node.iri # << >>
    /\ Truthy(e.node.predicate)

\* the results the expansion retains
RetainedObjects(e) == loadObjects(dataset, e.node.iri, e.node.predicate[1], ResultLimit)

\* the item the projector builds for node n
ItemOf(ns, n) == buildTreeItem(ns, n)[1]

\* C8: when the expansion of an outgoing predicate group retains exactly one
\* result and it is a literal, the group becomes loaded, carries the literal
\* value itself, has an empty children list, no node other than the group is
\* set in the map, and the projector gives the group no child and no
\* placeholder.
C8_SingleLiteralCollapses ==
    [][\A e \in BagToSet(inflight) :
          (/\ IsOutgoingGroup(e)
           /\ Len(RetainedObjects(e)) = 1
           /\ RetainedObjects(e)[1].isLiteral
           /\ CompleteExpansion(e))
          => /\ IsLoaded(nodes', e.nodeId)
             /\ nodes'[e.nodeId].singleLiteralValue = Some(RetainedObjects(e)[1].value)
             /\ nodes'[e.nodeId].children = Some(<< >>)
             /\ DOMAIN nodes' \subseteq DOMAIN nodes \cup {e.nodeId}
             /\ ValueNodesOf(nodes', e.nodeId) = {}
             /\ ItemOf(nodes', e.nodeId).children = << >>]_vars

\* a collapsed predicate group is shown in the tree
C8_Witness ==
    \E it \in ItemsOf(treeItems(nodes)) :
        /\ it.nodeId # None
        /\ nodes[it.nodeId[1]].type = "predicate"
        /\ nodes[it.nodeId[1]].loaded
        /\ nodes[it.nodeId[1]].singleLiteralValue = Some(X)
        /\ it.children = << >>

\* C9: when the expansion of an outgoing predicate group retains two or more
\* results, all literals, the group becomes loaded and is not collapsed, it
\* has one object node per literal (as many distinct children as literals),
\* each with isLiteral = true and without children, and the projector shows
\* the group with one leaf per literal.
C9_LiteralsMaterialized ==
    [][\A e \in BagToSet(inflight) :
          (/\ IsOutgoingGroup(e)
           /\ Len(RetainedObjects(e)) >= 2
           /\ \A i \in DOMAIN RetainedObjects(e) : RetainedObjects(e)[i].isLiteral
           /\ CompleteExpansion(e))
          => /\ IsLoaded(nodes', e.nodeId)
             /\ nodes'[e.nodeId].singleLiteralValue = None
             /\ nodes'[e.nodeId].children # None
             /\ Len(nodes'[e.nodeId].children[1]) = Len(RetainedObjects(e))
             /\ Cardinality(Range(nodes'[e.nodeId].children[1])) = Len(RetainedObjects(e))
             /\ \A i \in DOMAIN RetainedObjects(e) :
                   LET c == nodes'[e.nodeId].children[1][i]
                   IN /\ c \in DOMAIN nodes'
                      /\ nodes'[c].type = "object"
                      /\ nodes'[c].isLiteral = Some(TRUE)
                      /\ nodes'[c].literalValue = Some(RetainedObjects(e)[i].value)
                      /\ nodes'[c].children = None
             /\ Len(ItemOf(nodes', e.nodeId).children) = Len(RetainedObjects(e))
             /\ \A k \in DOMAIN ItemOf(nodes', e.nodeId).children :
                   ItemOf(nodes', e.nodeId).children[k].children = << >>]_vars

\* C10: when the expansion of an outgoing predicate group retains results of
\* which at least one is a named resource, the group gets one object node per
\* result: a literal result gives a node with isLiteral = true, a named
\* resource gives an unloaded node with isLiteral = false, and the group is
\* never collapsed.
C10_ResourcesMaterialized ==
    [][\A e \in BagToSet(inflight) :
          (/\ IsOutgoingGroup(e)
           /\ \E i \in DOMAIN RetainedObjects(e) : ~RetainedObjects(e)[i].isLiteral
           /\ CompleteExpansion(e))
          => /\ IsLoaded(nodes', e.nodeId)
             /\ nodes'[e.nodeId].singleLiteralValue = None
             /\ nodes'[e.nodeId].children # None
             /\ Len(nodes'[e.nodeId].children[1]) = Len(RetainedObjects(e))
             /\ \A i \in DOMAIN RetainedObjects(e) :
                   LET c == nodes'[e.nodeId].children[1][i]
                   IN /\ c \in DOMAIN nodes'
                      /\ nodes'[c].type = "object"
                      /\ nodes'[c].iri = RetainedObjects(e)[i].value
                      /\ nodes'[c].isLiteral = Some(RetainedObjects(e)[i].isLiteral)
                      /\ ~nodes'[c].loaded]_vars

----------------------------------------------------------------------------
(* C11 *)

\* e is a suspended expansion of a predicate group that is still in the map
IsPredicateGroup(e) ==
    /\ e.nodeId \in DOMAIN nodes
    /\ e.node.type = "predicate"
    /\ e.node.iri # << >>
    /\ Truthy(e.node.predicate)

\* the terms at the far end of the triples that match the group's pattern, in
\* source order: the objects of (iri, predicate, *) for an outgoing group, the
\* subjects of (*, predicate, iri) for an incoming one
MatchingTerms(e) ==
    LET out == e.node.parentType = Some("out")
        hits == SelectSeq(dataset, LAMBDA q :
                    /\ q.predicate = NamedNode(e.node.predicate[1])
                    /\ IF out THEN q.subject = NamedNode(e.node.iri)
                       ELSE q.object = NamedNode(e.node.iri))
    IN [i \in DOMAIN hits |-> IF out THEN hits[i].object ELSE hits[i].subject]

\* all matching terms are of a retained kind and have distinct values
RetainedAndDistinct(e) ==
    LET terms == MatchingTerms(e)
    IN /\ \A i \in DOMAIN terms :
             terms[i].termType \in
                 (IF e.node.parentType = Some("out") THEN {"NamedNode", "Literal"}
                  ELSE {"NamedNode"})
       /\ \A i, j \in DOMAIN terms : i # j => terms[i].value # terms[j].value

\* the group is loaded with one object node per term among the first 100, in
\* source order; the step logs success and the group's record has the fields
\* of NodeData only
CappedChildren(e) ==
    LET terms == MatchingTerms(e)
        count == IF Len(terms) < 100 THEN Len(terms) ELSE 100
    IN /\ IsLoaded(nodes', e.nodeId)
       /\ nodes'[e.nodeId].children =
             Some([i \in 1..count |-> e.nodeId \o <<"->", "object", ":">> \o terms[i].value])
       /\ \A i \in 1..count :
             LET c == e.nodeId \o <<"->", "object", ":">> \o terms[i].value
             IN c \in DOMAIN nodes' /\ nodes'[c].type = "object" /\ nodes'[c].iri = terms[i].value
       /\ Cardinality(ValueNodesOf(nodes', e.nodeId)) = count
       /\ console' = "Successfully loaded"
       /\ DOMAIN nodes'[e.nodeId] =
             {"type", "iri", "predicate", "loaded", "children", "parentType", "isLiteral",
              "literalValue", "objectInfo", "singleLiteralValue", "parentNodeId"}

\* the only result is one literal of an outgoing group
IsSingleLiteral(e) ==
    /\ e.node.parentType = Some("out")
    /\ Len(MatchingTerms(e)) = 1
    /\ MatchingTerms(e)[1].termType = "Literal"

\* C11 as stated: the completed expansion of a predicate group with n matching
\* triples, all of retained kinds with distinct values, leaves the group with
\* exactly min(n, 100) object nodes as children, the first in source order,
\* without an error and without a partial-result marker.
C11_ResultCap ==
    [][\A e \in BagToSet(inflight) :
          (IsPredicateGroup(e) /\ RetainedAndDistinct(e) /\ CompleteExpansion(e))
          => CappedChildren(e)]_vars

\* C11 amended: the same, except for an outgoing group whose only result is
\* one literal, which is collapsed into the group and gets no child.
C11_ResultCapUnlessCollapsed ==
    [][\A e \in BagToSet(inflight) :
          (/\ IsPredicateGroup(e)
           /\ RetainedAndDistinct(e)
           /\ ~IsSingleLiteral(e)
           /\ CompleteExpansion(e))
          => CappedChildren(e)]_vars

\* an outgoing and an incoming group with more than 100 matches are loaded
\* with 100 children each
C11_Witness ==
    \E n, m \in DOMAIN nodes :
        /\ nodes[n].type = "predicate" /\ nodes[n].parentType = Some("out")
        /\ nodes[m].type = "predicate" /\ nodes[m].parentType = Some("in")
        /\ nodes[n].loaded /\ nodes[m].loaded
        /\ Len(nodes[n].children[1]) = 100
        /\ Len(nodes[m].children[1]) = 100
        /\ Len(dataset) > 200

----------------------------------------------------------------------------
(* C12 *)

\* the predicates of the triples that match the pattern of a direction group
PredicatesOf(e) ==
    {dataset[i].predicate.value : i \in
        {j \in DOMAIN dataset :
            IF e.node.type = "out" THEN dataset[j].subject = NamedNode(e.node.iri)
            ELSE dataset[j].object = NamedNode(e.node.iri)}}

\* C12: the completed expansion of a direction group (iri, d) leaves the group
\* loaded with exactly one child per distinct predicate of the matching
\* triples: the children are unloaded predicate nodes of the group's IRI
\* tagged with d, none is missing, none appears twice, and they are in
\* strictly ascending order of their predicates.
C12_OneGroupPerPredicate ==
    [][\A e \in BagToSet(inflight) :
          (/\ e.nodeId \in DOMAIN nodes
           /\ e.node.type \in {"in", "out"}
           /\ CompleteExpansion(e))
          => /\ IsLoaded(nodes', e.nodeId)
             /\ nodes'[e.nodeId].children # None
             /\ LET children == nodes'[e.nodeId].children[1]
                IN /\ \A i \in DOMAIN children :
                         /\ children[i] \in DOMAIN nodes'
                         /\ nodes'[children[i]].type = "predicate"
                         /\ nodes'[children[i]].iri = e.node.iri
                         /\ nodes'[children[i]].parentType = Some(e.node.type)
                         /\ nodes'[children[i]].parentNodeId = Some(e.nodeId)
                         /\ ~nodes'[children[i]].loaded
                         /\ nodes'[children[i]].children = None
                         /\ children[i] = e.nodeId \o <<"->", "predicate", ":">> \o e.node.iri
                                             \o <<":">> \o nodes'[children[i]].predicate[1]
                   /\ {nodes'[children[i]].predicate[1] : i \in DOMAIN children} = PredicatesOf(e)
                   /\ Len(children) = Cardinality(PredicatesOf(e))
                   /\ \A i, j \in DOMAIN children :
                         i < j => StrLess(nodes'[children[i]].predicate[1],
                                          nodes'[children[j]].predicate[1])]_vars

\* both direction groups of an IRI whose triples name two predicates, one of
\* them twice and in descending source order, are loaded with two children
C12_Witness ==
    \E n, m \in DOMAIN nodes :
        /\ nodes[n].type = "out" /\ nodes[m].type = "in"
        /\ nodes[n].loaded /\ nodes[m].loaded
        /\ Len(nodes[n].children[1]) = 2 /\ Len(nodes[m].children[1]) = 2
        /\ Len(match(dataset, Some(NamedNode(nodes[n].iri)), None, None)) = 3
        /\ Len(match(dataset, None, None, Some(NamedNode(nodes[m].iri)))) = 3
        /\ dataset[1].predicate.value = Q

----------------------------------------------------------------------------
(* C13 *)

\* the object nodes of the map that stand for a literal
LiteralValueNodes(ns) ==
    {n \in DOMAIN ns : ns[n].type = "object" /\ ns[n].isLiteral = Some(TRUE)}

\* C13: in every reachable state an object node with isLiteral = true is
\* terminal: its children list is absent or empty, no node of the map names it
\* as its parent, running an expansion of it awaits no query and writes back a
\* map with the same node ids, and the projector gives its item no child and
\* no placeholder.
C13_LiteralValueIsTerminal ==
    \A n \in LiteralValueNodes(nodes) :
        /\ nodes[n].children \in {None, Some(<< >>)}
        /\ \A m \in DOMAIN nodes : nodes[m].parentNodeId # Some(n)
        /\ ~AwaitsQuery(nodes[n])
        /\ DOMAIN WriteBack(nodes, n, ResolveChildren(dataset, n, nodes[n])) = DOMAIN nodes
        /\ ItemOf(nodes, n).children = << >>

\* a literal object node is shown in the tree, next to an expandable sibling
C13_Witness ==
    \E it \in ItemsOf(treeItems(nodes)) :
        /\ it.nodeId # None
        /\ it.nodeId[1] \in LiteralValueNodes(nodes)
        /\ StartsWith(it.id, LiteralPrefix)
        /\ it.children = << >>
        /\ \E other \in ExpandableItems(nodes) :
              /\ other.nodeId # None
              /\ nodes[other.nodeId[1]].type = "object"
              /\ nodes[other.nodeId[1]].parentNodeId = nodes[it.nodeId[1]].parentNodeId

----------------------------------------------------------------------------
(* C14 *)

\* what the resolver produces for a root of the IRI
RootResolution(iri) ==
    ResolveChildren(dataset, getNodeId("root", iri, None, None),
                    NodeData("root", iri, None, FALSE, None, None, None, None))

\* C14: a requested expansion of an unloaded object node with isLiteral = false
\* completes within the request, without a query in flight: the node becomes
\* loaded with the two unloaded direction groups "in" and "out" of its IRI as
\* its only new nodes, their ids lie under the node's own id, and their
\* records are those a root of the same IRI gets, but for the parent they name.
C14_ResourceValueExpandsLikeRoot ==
    [][\A it \in ExpandableItems(nodes) :
          (/\ it.nodeId # None
           /\ nodes[it.nodeId[1]].type = "object"
           /\ nodes[it.nodeId[1]].isLiteral = Some(FALSE)
           /\ ~nodes[it.nodeId[1]].loaded
           /\ handleExpandedItemsChange(it.id))
          => LET n == it.nodeId[1]
                 iri == nodes[n].iri
                 rootId == <<"root", ":">> \o iri
                 inId == n \o <<"->", "in", ":">> \o iri
                 outId == n \o <<"->", "out", ":">> \o iri
             IN /\ inflight' = inflight
                /\ IsLoaded(nodes', n)
                /\ RootHasTwoGroups(nodes', n)
                /\ DOMAIN nodes' = DOMAIN nodes \cup {inId, outId}
                /\ RootResolution(iri).children =
                      <<rootId \o <<"->", "in", ":">> \o iri, rootId \o <<"->", "out", ":">> \o iri>>
                /\ nodes'[inId] =
                      [RootResolution(iri).newNodes[RootResolution(iri).children[1]]
                          EXCEPT !.parentNodeId = Some(n)]
                /\ nodes'[outId] =
                      [RootResolution(iri).newNodes[RootResolution(iri).children[2]]
                          EXCEPT !.parentNodeId = Some(n)]]_vars

\* a resource object node found as a subject of an incoming predicate is
\* loaded with its two unloaded direction groups
C14_Witness ==
    \E n \in DOMAIN nodes :
        /\ nodes[n].type = "object"
        /\ nodes[n].isLiteral = Some(FALSE)
        /\ nodes[n].loaded
        /\ nodes[nodes[n].parentNodeId[1]].parentType = Some("in")
        /\ RootHasTwoGroups(nodes, n)

----------------------------------------------------------------------------
(* C15 *)

\* the named-resource subjects among the first 100 triples, in source order,
\* that match (*, predicate, iri) for the incoming group of e
NamedSubjects(e) ==
    LET hits == SelectSeq(dataset, LAMBDA q :
                    /\ q.predicate = NamedNode(e.node.predicate[1])
                    /\ q.object = NamedNode(e.node.iri))
        first == SubSeq(hits, 1, IF Len(hits) < 100 THEN Len(hits) ELSE 100)
        named == SelectSeq(first, LAMBDA q : q.subject.termType = "NamedNode")
    IN [i \in DOMAIN named |-> named[i].subject.value]

\* C15: the completed expansion of an incoming predicate group leaves the
\* group loaded and not collapsed, with exactly one child per triple among the
\* first 100 matches of (*, predicate, iri) whose subject is a named resource,
\* in source order: each child is an unloaded object node with
\* isLiteral = false that the projector shows as expandable; a match with
\* another kind of subject gives no child, and the step logs no error.
C15_IncomingSubjects ==
    [][\A e \in BagToSet(inflight) :
          (/\ IsPredicateGroup(e)
           /\ e.node.parentType = Some("in")
           /\ CompleteExpansion(e))
          => /\ IsLoaded(nodes', e.nodeId)
             /\ nodes'[e.nodeId].singleLiteralValue = None
             /\ nodes'[e.nodeId].children =
                   Some([i \in DOMAIN NamedSubjects(e) |->
                            e.nodeId \o <<"->", "object", ":">> \o NamedSubjects(e)[i]])
             /\ ValueNodesOf(nodes', e.nodeId) = Range(nodes'[e.nodeId].children[1])
             /\ Cardinality(ValueNodesOf(nodes', e.nodeId)) = Len(NamedSubjects(e))
             /\ \A i \in DOMAIN NamedSubjects(e) :
                   LET c == nodes'[e.nodeId].children[1][i]
                   IN /\ nodes'[c].iri = NamedSubjects(e)[i]
                      /\ nodes'[c].isLiteral = Some(FALSE)
                      /\ ~nodes'[c].loaded
                      /\ nodes'[c].children = None
                      /\ ItemOf(nodes', c).id = c
                      /\ Len(ItemOf(nodes', c).children) = 1
             /\ console' = "Successfully loaded"]_vars

\* an incoming group is loaded with one child although two triples match, one
\* of them with a blank node as its subject
C15_Witness ==
    \E n \in DOMAIN nodes :
        /\ nodes[n].type = "predicate"
        /\ nodes[n].parentType = Some("in")
        /\ nodes[n].loaded
        /\ Len(nodes[n].children[1]) = 1
        /\ Len(match(dataset, None, Some(NamedNode(nodes[n].predicate[1])),
                     Some(NamedNode(nodes[n].iri)))) = 2
        /\ \E i \in DOMAIN dataset : dataset[i].subject.termType = "BlankNode"

----------------------------------------------------------------------------
(* C16 *)

\* the items of the specialized tree that stand for a record (no placeholders)
SpecializedNodeItems ==
    IF sview = None \/ RenderThrows THEN {}
    ELSE {it \in ItemsOf(SpecializedTreeItems(snodes, sview[1].startIri)) :
             it.id \in DOMAIN snodes}

\* the IRIs with a record that were discovered: the start node and the
\* children of the records
DiscoveredIris ==
    IF sview = None THEN {}
    ELSE {iri \in DOMAIN snodes :
             \/ iri = sview[1].startIri
             \/ \E n \in DOMAIN snodes :
                   snodes[n].children # None /\ iri \in Range(snodes[n].children[1])}

\* C16: the specialized view keeps one record per IRI.  In every reachable
\* state each record is stored under its own IRI, every discovered IRI that
\* has a record occurs in the projected tree, every occurrence of an IRI
\* shows the label of that record and the children of that record that have a
\* record themselves, so that two occurrences of an IRI are the same item;
\* and when an IRI that has a record is discovered again as a child, its
\* record keeps its loaded flag and its children.
C16_OneRecordPerIri ==
    /\ [](/\ \A iri \in DOMAIN snodes : snodes[iri].iri = iri
          /\ \A iri \in DiscoveredIris : \E it \in SpecializedNodeItems : it.id = iri
          /\ \A it \in SpecializedNodeItems :
                /\ it.label = (IF Truthy(snodes[it.id].label)
                               THEN shortenUri(it.id) \o <<" | ">> \o snodes[it.id].label[1]
                               ELSE shortenUri(it.id))
                /\ snodes[it.id].children # None /\ snodes[it.id].children[1] # << >>
                      => [i \in DOMAIN it.children |-> it.children[i].id] =
                            SelectSeq(snodes[it.id].children[1],
                                      LAMBDA c : c \in DOMAIN snodes)
          /\ \A it1, it2 \in SpecializedNodeItems : it1.id = it2.id => it1 = it2)
    /\ [][\A childIris \in BagToSet(slabels) :
             ChildLabelsArrive(childIris) =>
                \A iri \in DOMAIN snodes :
                   /\ iri \in DOMAIN snodes'
                   /\ snodes'[iri].loaded = snodes[iri].loaded
                   /\ snodes'[iri].children = snodes[iri].children]_vars

\* an IRI with a label occurs twice in the tree, under the start node and
\* under another child of it, loaded, while its parents' label lookups are over
C16_Witness ==
    /\ slabels = EmptyBag
    /\ \E it1, it2 \in SpecializedNodeItems :
          /\ it1.id # it2.id
          /\ it1.id # sview[1].startIri
          /\ it2.id # sview[1].startIri
          /\ \E i \in DOMAIN it1.children : it1.children[i].id = it2.id
          /\ snodes[it2.id].loaded
          /\ Truthy(snodes[it2.id].label)
          /\ Cardinality({n \in DOMAIN snodes :
                 snodes[n].children # None /\ it2.id \in Range(snodes[n].children[1])}) = 2

----------------------------------------------------------------------------
(* C17 *)

\* C17: in the specialized view every projection of the node map into a tree
\* terminates, also when the followed predicate has a cycle: in no reachable
\* state does the recursion of buildTreeItem from the start node meet a node
\* again below itself.
C17_ProjectionTerminates ==
    sview # None => ~BuildRecursesForever(snodes, sview[1].startIri, {})

----------------------------------------------------------------------------
(* C18 *)

\* C18: in the specialized view an expansion request for a node whose load is
\* in flight or that is loaded is a no-op: it puts no query in flight and
\* changes no record.
C18_ReentrantRequestIsNoOp ==
    [][\A it \in SpecializedExpandableItems :
          (/\ it.id \in DOMAIN snodes
           /\ (snodes[it.id].loaded \/ it.id \in BagToSet(sinflight))
           /\ SpecializedHandleExpandedItemsChange(it.id))
          => UNCHANGED <<sinflight, snodes>>]_vars

----------------------------------------------------------------------------
(* C19 *)

\* the positions of the source whose triple relates the IRI by the predicate
\* of the view to a named resource, in the direction of the view
NamedRelatedPositions(iri) ==
    {i \in DOMAIN dataset :
        /\ dataset[i].predicate = NamedNode(sview[1].predicateIri)
        /\ IF sview[1].direction = "out"
           THEN dataset[i].subject = NamedNode(iri)
                /\ dataset[i].object.termType = "NamedNode"
           ELSE dataset[i].object = NamedNode(iri)
                /\ dataset[i].subject.termType = "NamedNode"}

\* the resource at the other end of the triple at a position
OtherEnd(i) ==
    IF sview[1].direction = "out" THEN dataset[i].object.value
    ELSE dataset[i].subject.value

\* C19: in every reachable state of the specialized view the children of a
\* loaded record are, one per triple and in source order, the named-resource
\* objects of the triples (iri, predicateIri, *) when the direction is out and
\* the named-resource subjects of the triples (*, predicateIri, iri) when it
\* is in; a literal or a blank node at the other end gives no child, and a
\* record that is not loaded has no children.
C19_ChildrenAreNamedResources ==
    sview # None =>
        \A iri \in DOMAIN snodes :
            IF snodes[iri].loaded
            THEN /\ snodes[iri].children # None
                 /\ LET children == snodes[iri].children[1]
                        positions == NamedRelatedPositions(iri)
                    IN /\ Len(children) = Cardinality(positions)
                       /\ \A i \in positions :
                             children[Cardinality({j \in positions : j <= i})]
                                = OtherEnd(i)
            ELSE snodes[iri].children = None

\* a node is loaded in direction out with one child although three triples
\* match, one with a literal and one with a blank node as its object
C19_Witness ==
    /\ sview # None
    /\ sview[1].direction = "out"
    /\ \E iri \in DOMAIN snodes :
          /\ snodes[iri].loaded
          /\ Len(snodes[iri].children[1]) = 1
          /\ LET matches == match(dataset, Some(NamedNode(iri)),
                                  Some(NamedNode(sview[1].predicateIri)), None)
             IN /\ Len(matches) = 3
                /\ \E i \in DOMAIN matches : matches[i].object.termType = "Literal"
                /\ \E i \in DOMAIN matches : matches[i].object.termType = "BlankNode"

----------------------------------------------------------------------------
(* C20 *)

\* C20: in the specialized view the label lookup and the child query of a
\* node write back into its record without waiting on each other: when the
\* label lookup of a load fails, the record of the node still becomes loaded
\* with the children the child query found, and when the child query fails,
\* the record still receives the label the lookup found.
C20_LabelAndChildrenIndependent ==
    [][\A iri \in BagToSet(sinflight) :
          /\ (/\ ~(iri \in DOMAIN snodes /\ snodes[iri].loaded)
              /\ RejectLoadNode(iri, "label"))
             => /\ iri \in DOMAIN snodes'
                /\ snodes'[iri].loaded
                /\ snodes'[iri].children = Some(relatedNodes(dataset, sview[1], iri))
          /\ (/\ ~(iri \in DOMAIN snodes /\ snodes[iri].loaded)
              /\ RejectLoadNode(iri, "related"))
             => /\ iri \in DOMAIN snodes'
                /\ snodes'[iri].label = loadLabel(dataset, iri)]_vars

----------------------------------------------------------------------------
(* C21 *)

\* the items of the general tree that stand for a node of the map
NodeItems == {it \in ItemsOf(treeItems(nodes)) : it.nodeId # None}

\* the synthetic placeholder children of an item
PlaceholdersOf(it) == {i \in DOMAIN it.children : it.children[i].nodeId = None}

\* a Root, a DirectionGroup, a PredicateGroup that is not collapsed onto a
\* single literal, or a Value that is not a literal
IsExpandableKind(node) ==
    \/ node.type \in {"root", "in", "out"}
    \/ node.type = "predicate" /\ node.singleLiteralValue = None
    \/ node.type = "object" /\ node.isLiteral # Some(TRUE)

\* C21: in every reachable state of the general browser every projected node
\* that is of an expandable kind and not loaded has exactly one child, a
\* synthetic placeholder named after the node, and every other projected node
\* (a loaded node, a collapsed PredicateGroup, a literal Value) has no
\* placeholder among its children.
C21_PlaceholderIffExpandableUnloaded ==
    \A it \in NodeItems :
        LET node == nodes[it.nodeId[1]]
        IN IF IsExpandableKind(node) /\ ~node.loaded
           THEN /\ Len(it.children) = 1
                /\ PlaceholdersOf(it) = {1}
                /\ it.children[1].id = it.nodeId[1] \o PlaceholderSuffix
           ELSE PlaceholdersOf(it) = {}

\* a loaded group shows a literal Value without a placeholder next to a
\* resource Value with one
C21_Witness ==
    \E group \in NodeItems :
        /\ nodes[group.nodeId[1]].type = "predicate"
        /\ nodes[group.nodeId[1]].loaded
        /\ PlaceholdersOf(group) = {}
        /\ \E i, j \in DOMAIN group.children :
              /\ nodes[group.children[i].nodeId[1]].isLiteral = Some(TRUE)
              /\ group.children[i].children = << >>
              /\ nodes[group.children[j].nodeId[1]].isLiteral = Some(FALSE)
              /\ PlaceholdersOf(group.children[j]) = {1}

----------------------------------------------------------------------------
(* C22 *)

\* the pattern query of a pending expansion of the general browser returns
\* no result
QueryReturnsNothing(e) ==
    CASE e.node.type = "out" -> loadOutgoingPredicates(dataset, e.node.iri) = << >>
      [] e.node.type = "in" -> loadIncomingPredicates(dataset, e.node.iri) = << >>
      [] e.node.type = "predicate" ->
            /\ e.node.iri # << >>
            /\ Truthy(e.node.predicate)
            /\ IF e.node.parentType = Some("out")
               THEN loadObjects(dataset, e.node.iri, e.node.predicate[1], ResultLimit) = << >>
               ELSE loadSubjects(dataset, e.node.iri, e.node.predicate[1], ResultLimit) = << >>
      [] OTHER -> FALSE

\* C22: in both browsers a completed expansion whose query returns no result
\* leaves the node loaded with an empty children list and logs no error, the
\* projector then shows the node without children, and in every reachable
\* state a loaded node with an empty children list is projected as a leaf
\* without a placeholder.
C22_EmptyResultIsLeaf ==
    /\ [][\A e \in BagToSet(inflight) :
             (/\ e.nodeId \in DOMAIN nodes
              /\ QueryReturnsNothing(e)
              /\ CompleteExpansion(e))
             => /\ IsLoaded(nodes', e.nodeId)
                /\ nodes'[e.nodeId].children = Some(<< >>)
                /\ console' = "Successfully loaded"
                /\ ItemOf(nodes', e.nodeId).children = << >>]_vars
    /\ [][\A iri \in BagToSet(sinflight) :
             (/\ relatedNodes(dataset, sview[1], iri) = << >>
              /\ CompleteLoadNode(iri))
             => /\ iri \in DOMAIN snodes'
                /\ snodes'[iri].loaded
                /\ snodes'[iri].children = Some(<< >>)
                /\ console' = console
                /\ SpecializedBuildTreeItem(snodes', iri)[1].children = << >>]_vars
    /\ [](/\ \A n \in DOMAIN nodes :
                (nodes[n].loaded /\ nodes[n].children = Some(<< >>))
                => ItemOf(nodes, n).children = << >>
          /\ \A iri \in DOMAIN snodes :
                (snodes[iri].loaded /\ snodes[iri].children = Some(<< >>))
                => SpecializedBuildTreeItem(snodes, iri)[1].children = << >>)

\* the general browser shows a loaded predicate group whose query returned
\* nothing (its only match is a blank node) as a leaf
C22_Witness ==
    \E n \in DOMAIN nodes :
        /\ nodes[n].type = "predicate"
        /\ nodes[n].loaded
        /\ nodes[n].children = Some(<< >>)
        /\ nodes[n].singleLiteralValue = None
        /\ nodes[n].objectInfo = Some(<< >>)
        /\ ItemOf(nodes, n).children = << >>

----------------------------------------------------------------------------
(* C23 *)

\* C23: choosing "Specialize" in the menu opened by a right click on the item
\* of a PredicateGroup hands off a message with the IRI of that group as the
\* start, the predicate of that group, and the direction of the
\* DirectionGroup the group stands under; and while the specialized view is
\* shown no step changes the node map of the general browser: the traversal
\* writes to its own map only.
C23_HandOffCarriesGroup ==
    /\ [][\A click \in SpecializableItems(nodes) :
             \A n \in DOMAIN nodes :
                (/\ nodes[n].type = "predicate"
                 /\ click.id \in {n, LiteralPrefix \o n}
                 /\ onSelectPredicate(click.nodeId[1]))
                => LET group == nodes[n]
                   IN /\ click.nodeId = Some(n)
                      /\ group.parentNodeId # None
                      /\ group.parentNodeId[1] \in DOMAIN nodes
                      /\ LET parent == nodes[group.parentNodeId[1]]
                         IN /\ parent.type \in {"in", "out"}
                            /\ parent.iri = group.iri
                            /\ sview' = Some([startIri |-> group.iri,
                                              predicateIri |-> group.predicate[1],
                                              direction |-> parent.type])]_vars
    /\ [][sview # None => UNCHANGED nodes]_vars

\* after a hand-off from a group under an in DirectionGroup the traversal has
\* loaded the start node with a parent in its own map
C23_Witness ==
    /\ sview # None
    /\ sview[1].direction = "in"
    /\ sview[1].startIri \in DOMAIN snodes
    /\ snodes[sview[1].startIri].loaded
    /\ snodes[sview[1].startIri].children # Some(<< >>)
    /\ nodes = EmptyMap

----------------------------------------------------------------------------
(* C24 *)

\* C24: selecting a saved reference v while a field is recorded as focused
\* stores v as the value of that field and leaves every other field value,
\* the bookmarks and the recorded focus as they are; while no field is
\* recorded as focused it leaves the whole store unchanged.
C24_FillWritesFocusedFieldOnly ==
    [][\A v \in FieldTexts :
          handleBookmarkClick(v)
          => IF lastFocusedInputId # None
             THEN /\ DOMAIN fieldStates' = DOMAIN fieldStates \cup {lastFocusedInputId[1]}
                  /\ fieldStates'[lastFocusedInputId[1]] = v
                  /\ \A f \in DOMAIN fieldStates \ {lastFocusedInputId[1]} :
                        fieldStates'[f] = fieldStates[f]
                  /\ UNCHANGED <<bookmarks, lastFocusedInputId>>
             ELSE UNCHANGED <<bookmarks, fieldStates, lastFocusedInputId>>]_vars

\* a reference was selected while the Start IRI input was recorded as focused:
\* its stored value differs from the text of the input, the other field
\* keeps another value and a bookmark is saved
C24_Witness ==
    /\ lastFocusedInputId = Some(inputId)
    /\ effectDeps # None
    /\ fieldValue # None
    /\ effectDeps[1].fieldValue # fieldValue
    /\ effectDeps[1].rootIri = rootIri
    /\ fieldValue[1] # rootIri
    /\ \E f \in DOMAIN fieldStates \ {inputId} : fieldStates[f] # fieldValue[1]
    /\ bookmarks # << >>

----------------------------------------------------------------------------
(* C25 *)

\* the store value of the Start IRI input was set to v from outside and
\* GraphBrowser has not yet run the effects of that change
StoreChangedTo(v) ==
    /\ sview = None
    /\ effectDeps # None
    /\ effectDeps[1].rootIri = rootIri
    /\ effectDeps[1].fieldValue # fieldValue
    /\ fieldValue = Some(v)
    /\ v # rootIri

\* C25: whatever edits, focus events and fills came before, selecting a
\* saved reference v while the Start IRI input is the field recorded as
\* focused makes the input show v: a store change to v that GraphBrowser has
\* not yet seen leads to a state in which the input shows v and no effect is
\* left to run, and in every state in which the store holds v for the focused
\* input and no effect is left to run (the state a fill of v ends in) the
\* input shows v.
C25_FillReachesInput ==
    /\ [](\A v \in FieldTexts :
             (/\ sview = None
              /\ lastFocusedInputId = Some(inputId)
              /\ fieldValue = Some(v)
              /\ EffectsSettled)
             => rootIri = v)
    /\ \A v \in FieldTexts : StoreChangedTo(v) ~> (rootIri = v /\ EffectsSettled)

----------------------------------------------------------------------------
(* C26 *)

\* C26: every step of the general browser that is not a root submission
\* keeps every node of the map, keeps every loaded node loaded and leaves the
\* children list of every loaded node as it is.
C26_MapGrowsMonotonically ==
    [][\/ handleLoadRoot
       \/ /\ DOMAIN nodes \subseteq DOMAIN nodes'
          /\ \A n \in DOMAIN nodes :
                nodes[n].loaded
                => /\ nodes'[n].loaded
                   /\ nodes'[n].children = nodes[n].children]_vars

----------------------------------------------------------------------------
(* C27 *)

\* C27: in every reachable state of the general browser every id in the
\* children list of a node names a node of the map whose parentNodeId is that
\* node, every node that is not a root has a parentNodeId that names a node of
\* the map, and a node is loaded exactly when its children list is set.
C27_ChildrenWrittenWithNode ==
    \A n \in DOMAIN nodes :
        /\ nodes[n].children # None
           => \A i \in DOMAIN nodes[n].children[1] :
                 LET c == nodes[n].children[1][i]
                 IN c \in DOMAIN nodes /\ nodes[c].parentNodeId = Some(n)
        /\ nodes[n].type # "root"
           => nodes[n].parentNodeId # None /\ nodes[n].parentNodeId[1] \in DOMAIN nodes
        /\ nodes[n].loaded <=> nodes[n].children # None

----------------------------------------------------------------------------
(* C28 *)

\* the node map after the write-back of a pending expansion
AfterWriteBack(ns, e) == WriteBack(ns, e.nodeId, ResolveChildren(dataset, e.nodeId, e.node))

\* C28: in every reachable state, for two pending expansions of distinct
\* nodes, the write-back of each changes only its own node and the children
\* it resolved, and the two write-backs give the same node map in either
\* order.
C28_DistinctExpansionsCommute ==
    \A e1, e2 \in BagToSet(inflight) :
        e1.nodeId # e2.nodeId
        => /\ \A n \in DOMAIN AfterWriteBack(nodes, e1) :
                 n \notin {e1.nodeId} \cup Range(ResolveChildren(dataset, e1.nodeId, e1.node).children)
                 => n \in DOMAIN nodes /\ AfterWriteBack(nodes, e1)[n] = nodes[n]
           /\ AfterWriteBack(AfterWriteBack(nodes, e1), e2)
                 = AfterWriteBack(AfterWriteBack(nodes, e2), e1)

----------------------------------------------------------------------------
(* C29 *)

\* the root IRIs that are submitted
SubmittedIris == {A, B}

\* the root of the IRI was submitted and its timer has not run yet
RootSubmitted(iri) ==
    /\ RootNodeIds(nodes) = {getNodeId("root", iri, None, None)}
    /\ ~nodes[getNodeId("root", iri, None, None)].loaded
    /\ timers # << >>
    /\ timers[Len(timers)].nodeId = getNodeId("root", iri, None, None)

\* the root of the IRI is loaded with its two DirectionGroup children
RootLoaded(iri) ==
    LET rootNodeId == getNodeId("root", iri, None, None)
    IN /\ IsLoaded(nodes, rootNodeId)
       /\ nodes[rootNodeId].children =
             Some(<<getNodeId("in", iri, None, Some(rootNodeId)),
                    getNodeId("out", iri, None, Some(rootNodeId))>>)

\* C29: from whatever state a root IRI is submitted, the new root becomes
\* loaded with its In and Out groups without any user expansion, unless
\* another root is submitted first.
C29_RootLoadsItself ==
    \A iri \in SubmittedIris :
        RootSubmitted(iri) ~> (RootLoaded(iri) \/ RootNodeIds(nodes) # {getNodeId("root", iri, None, None)})

----------------------------------------------------------------------------
(* C30 *)

\* the specialized view is shown and the load of its start node is pending
StartNodePending ==
    /\ sview # None
    /\ sview[1].startIri \in BagToSet(sinflight)

\* the start node of the specialized view is loaded
StartNodeLoaded ==
    /\ sview # None
    /\ sview[1].startIri \in DOMAIN snodes
    /\ snodes[sview[1].startIri].loaded

\* C30: when the specialized view is started, its map is exactly one unloaded
\* record for the start IRI, the start item is the only expanded one and the
\* load of the start node is pending although the user expanded nothing; then
\* the start node becomes loaded unless a query fails or the view is closed.
C30_StartNodeLoadsItself ==
    /\ [][sview = None /\ sview' # None =>
             /\ snodes' = (sview'[1].startIri :>
                              SpecializedNode(sview'[1].startIri, None, FALSE, None))
             /\ sexpandedItems' = {sview'[1].startIri}
             /\ sinflight' = SetToBag({sview'[1].startIri})]_vars
    /\ StartNodePending ~>
          (StartNodeLoaded \/ sview = None \/ console = "Error loading node:")

\* the start node loaded itself: it is loaded with children, still expanded,
\* and no query failed since the view was started
C30_Witness ==
    /\ StartNodeLoaded
    /\ snodes[sview[1].startIri].children # None
    /\ snodes[sview[1].startIri].children[1] # << >>
    /\ sexpandedItems = {sview[1].startIri}
    /\ sinflight = EmptyBag
    /\ console \in {"Clicked Specialize In", "Clicked Specialize Out"}

----------------------------------------------------------------------------
(* C31 *)

\* the placeholder item the specialized projector puts below an unloaded node
SpecializedPlaceholder(iri) ==
    [id |-> iri \o PlaceholderSuffix, label |-> <<"...">>, children |-> << >>]

\* a step in which the labels of the children of a loaded node are written
ChildLabelsWritten ==
    /\ sview # None
    /\ sview' = sview
    /\ BagCardinality(slabels') < BagCardinality(slabels)
    /\ snodes' # snodes

\* C31: every item of the specialized tree whose record is not loaded has the
\* placeholder as its only child, with or without a label; and a step that
\* writes child labels leaves the loaded flag and the children of every
\* existing record as they were, and creates only unloaded records without
\* children.
C31_UnloadedShowsPlaceholder ==
    /\ [](\A it \in SpecializedNodeItems :
             ~snodes[it.id].loaded => it.children = <<SpecializedPlaceholder(it.id)>>)
    /\ [][ChildLabelsWritten =>
             /\ DOMAIN snodes \subseteq DOMAIN snodes'
             /\ \A iri \in DOMAIN snodes :
                   /\ snodes'[iri].loaded = snodes[iri].loaded
                   /\ snodes'[iri].children = snodes[iri].children
                   /\ snodes'[iri].iri = snodes[iri].iri
             /\ \A iri \in DOMAIN snodes' \ DOMAIN snodes :
                   /\ ~snodes'[iri].loaded
                   /\ snodes'[iri].children = None]_vars

\* an unloaded node is shown with its resolved label and the placeholder,
\* next to an unloaded node without a label, below a loaded node whose label
\* lookup for the children has been written
C31_Witness ==
    /\ sview # None
    /\ slabels = EmptyBag
    /\ \E it \in SpecializedNodeItems, other \in SpecializedNodeItems :
          /\ ~snodes[it.id].loaded
          /\ Truthy(snodes[it.id].label)
          /\ it.children = <<SpecializedPlaceholder(it.id)>>
          /\ ~snodes[other.id].loaded
          /\ ~Truthy(snodes[other.id].label)
          /\ snodes[sview[1].startIri].loaded

----------------------------------------------------------------------------
(* C32 *)

\* the children of a loaded record, in stored order
ChildrenOf(ns, iri) ==
    IF ns[iri].children = None THEN << >> ELSE ns[iri].children[1]

\* C32: every IRI among the children of a loaded record has a record of its
\* own, and the item of a loaded node shows its children in stored order,
\* also while the label lookup for the children is pending or after it failed.
C32_ChildrenHaveRecords ==
    /\ \A iri \in DOMAIN snodes :
          snodes[iri].loaded => Range(ChildrenOf(snodes, iri)) \subseteq DOMAIN snodes
    /\ \A it \in SpecializedNodeItems :
          snodes[it.id].loaded =>
             /\ Len(it.children) = Len(ChildrenOf(snodes, it.id))
             /\ \A i \in DOMAIN it.children :
                   it.children[i].id = ChildrenOf(snodes, it.id)[i]

----------------------------------------------------------------------------
(* C33 *)

\* the IRIs for which a step of the specialized view starts a loadNode
StartedLoads ==
    {iri \in BagToSet(sinflight') : CopiesIn(iri, sinflight') > CopiesIn(iri, sinflight)}

\* the IRIs one expansion of the item may load: the node itself when it is
\* not loaded, otherwise its direct children that are not loaded
DemandedBy(itemId) ==
    IF itemId \notin DOMAIN snodes THEN {}
    ELSE IF ~snodes[itemId].loaded THEN {itemId}
    ELSE {c \in Range(ChildrenOf(snodes, itemId)) :
             c \notin DOMAIN snodes \/ ~snodes[c].loaded}

\* C33: while the specialized view is shown, a step starts child-edge queries
\* only when the user newly expands one item, and then only for that node
\* or, when it is loaded, for its direct unloaded children; a completion, a
\* failure or a label write-back starts none.
C33_OneLevelPerExpansion ==
    [][sview # None /\ sview' = sview /\ StartedLoads # {} =>
          /\ \E itemId \in sexpandedItems' \ sexpandedItems :
                /\ sexpandedItems' = sexpandedItems \cup {itemId}
                /\ StartedLoads \subseteq DemandedBy(itemId)
          /\ snodes' = snodes
          /\ slabels' = slabels
          /\ \A iri \in BagToSet(sinflight) :
                CopiesIn(iri, sinflight') >= CopiesIn(iri, sinflight)]_vars

\* the start node is loaded and expanded, and the loads of two of its
\* children are pending although neither child was expanded
C33_Witness ==
    /\ sview # None
    /\ StartNodeLoaded
    /\ sview[1].startIri \in sexpandedItems
    /\ \E c, d \in Range(ChildrenOf(snodes, sview[1].startIri)) :
          /\ c # d
          /\ {c, d} \subseteq BagToSet(sinflight)
          /\ {c, d} \cap sexpandedItems = {}
          /\ ~snodes[c].loaded /\ ~snodes[d].loaded

----------------------------------------------------------------------------
(* C34 *)

\* C34: once the effects of the general browser have run, the store's value
\* for the Start IRI input equals the text of the input, after whatever
\* edits and fills.
C34_StoreFollowsInput ==
    (sview = None /\ EffectsSettled) => fieldValue = Some(rootIri)

----------------------------------------------------------------------------
(* C35 *)

\* C35: the loading indicator of the general browser is on exactly while at
\* least one expansion is in flight; the completion of one of two overlapping
\* expansions leaves it on.
C35_LoadingWhileInFlight ==
    loading <=> (inflight # EmptyBag)

----------------------------------------------------------------------------
(* C36 *)

\* the metadata fields of a bookmark
MetadataKeys == {"label", "description", "hint"}

\* the metadata gives the field: it is passed and holds a value for the key
Gives(metadata, key) ==
    metadata # None /\ key \in DOMAIN metadata[1] /\ metadata[1][key] # None

\* the bookmarks of the IRI in the list
BookmarksOf(list, iri) == SelectSeq(list, LAMBDA b : b.iri = iri)

\* C36: the list never holds two bookmarks of one IRI; and addBookmark, called
\* in a reachable state with any IRI, metadata and time, returns a list whose
\* first bookmark is the IRI's, holding each metadata field the call gives
\* and otherwise what the IRI's bookmark held before (nothing when there was
\* none), followed by the other bookmarks in their order, and changes
\* nothing else of the store.
C36_OneBookmarkPerIri ==
    /\ \A i, j \in DOMAIN bookmarks : bookmarks[i].iri = bookmarks[j].iri => i = j
    /\ \A iri \in BookmarkIris, now \in Times :
       \A metadata \in {None} \cup {Some(m) : m \in Metadatas} :
          LET after == addBookmark(StoreState, iri, metadata, now)
              before == BookmarksOf(bookmarks, iri)
          IN /\ after.bookmarks # << >>
             /\ after.bookmarks[1].iri = iri
             /\ after.bookmarks[1].addedAt = now
             /\ \A key \in MetadataKeys :
                   after.bookmarks[1][key] =
                      IF Gives(metadata, key) THEN metadata[1][key]
                      ELSE IF before # << >> THEN before[1][key]
                      ELSE None
             /\ Tail(after.bookmarks) = SelectSeq(bookmarks, LAMBDA b : b.iri # iri)
             /\ after.fieldStates = fieldStates
             /\ after.lastFocusedInputId = lastFocusedInputId

\* three IRIs are bookmarked; the first bookmark was added last, and holds a
\* label and a hint, which no single call gives
C36_Witness ==
    /\ Len(bookmarks) = 3
    /\ bookmarks[1].addedAt = 2
    /\ bookmarks[1].label = Some(X)
    /\ bookmarks[1].hint = Some("subject")
    /\ bookmarks[2].addedAt = 1
    /\ bookmarks[3].addedAt = 1
    /\ bookmarks[2].label # bookmarks[3].label

----------------------------------------------------------------------------
(* C37 *)

\* the inputs that may register with the store
AllInputIds == {inputId} \cup OtherInputIds

\* the store after removeField(f) has no value of f, no recorded focus if f
\* was the recorded field, and is otherwise the store before
RemovedFrom(before, after, f) ==
    /\ DOMAIN after.fieldStates = DOMAIN before.fieldStates \ {f}
    /\ \A g \in DOMAIN after.fieldStates : after.fieldStates[g] = before.fieldStates[g]
    /\ after.lastFocusedInputId =
          IF before.lastFocusedInputId = Some(f) THEN None ELSE before.lastFocusedInputId
    /\ after.bookmarks = before.bookmarks

\* C37: removeField(f), in any reachable state and when GraphBrowser is
\* unmounted, deletes the value of f, resets the recorded focus exactly when
\* it was f and changes nothing else; a fill right after it creates no value
\* of f; and while GraphBrowser is unmounted its input is neither recorded as
\* focused nor has a stored value, whatever references are selected.
C37_RemovedFieldStaysRemoved ==
    /\ [](\A f \in AllInputIds :
            LET after == removeField(StoreState, f)
            IN /\ RemovedFrom(StoreState, after, f)
               /\ \A v \in FieldTexts :
                     f \notin DOMAIN fillFocusedInput(after, v).fieldStates)
    /\ [][sview = None /\ sview' # None =>
             RemovedFrom(StoreState,
                         [bookmarks |-> bookmarks', fieldStates |-> fieldStates',
                          lastFocusedInputId |-> lastFocusedInputId'],
                         inputId)]_vars
    /\ [](sview # None =>
             inputId \notin DOMAIN fieldStates /\ lastFocusedInputId # Some(inputId))
    /\ [][\A f \in AllInputIds :
             (f \notin DOMAIN fieldStates /\ f \in DOMAIN fieldStates')
             => (lastFocusedInputId = Some(f) \/ (sview = None /\ f = inputId))]_vars

\* GraphBrowser was unmounted and the specialized view has loaded its start
\* node: the stored value of the Start IRI input and the recorded focus are gone
C37_Witness ==
    /\ sview # None
    /\ inputId \notin DOMAIN fieldStates
    /\ lastFocusedInputId = None
    /\ StartNodeLoaded

====
